---- MODULE Spec2Model ----
(***************************************************************************)
(* Task management API: the task service (src/src/services/taskService.js) *)
(* and the tag service (appended to src/src/routes/taskRoutes.js) over the *)
(* SQLite schema of src/unnamed/part_006 (database.js).                    *)
(*                                                                         *)
(* Every request is a process; every db.get / db.run / db.all is one       *)
(* atomic step on the store, and steps of different requests (and of the   *)
(* promises one request starts with Promise.all) interleave freely.        *)
(*                                                                         *)
(* Strings are sequences of one-character strings, so that trim(),         *)
(* toLowerCase(), split() and SQL lower() are computed, not assumed.       *)
(***************************************************************************)
EXTENDS Integers, Sequences, FiniteSets, TLC

VARIABLES tasks, nextTaskId, tags, nextTagId, task_tags, now, req, nreq

store == <<tasks, nextTaskId, tags, nextTagId, task_tags>>
vars == <<tasks, nextTaskId, tags, nextTagId, task_tags, now, req, nreq>>

(***************************************************************************)
(* Bounds of the model.                                                    *)
(***************************************************************************)
MaxTasks == 2
MaxTags == 3
MaxClock == 1
\* requests accepted in one run of the concurrent specification
MaxRequests == 4

Users == {1, 2}
Procs == {1, 2}

(***************************************************************************)
(* Strings.                                                                *)
(***************************************************************************)
UpperLetters == <<"A", "B", "C", "D", "E", "S">>
LowerLetters == <<"a", "b", "c", "d", "e", "s">>

\* String.prototype.toLowerCase / SQL lower(), one character
ToLowerChar(c) ==
  IF \E i \in 1..Len(UpperLetters) : UpperLetters[i] = c
  THEN LowerLetters[CHOOSE i \in 1..Len(UpperLetters) : UpperLetters[i] = c]
  ELSE c

\* String.prototype.toUpperCase, one character
ToUpperChar(c) ==
  IF \E i \in 1..Len(LowerLetters) : LowerLetters[i] = c
  THEN UpperLetters[CHOOSE i \in 1..Len(LowerLetters) : LowerLetters[i] = c]
  ELSE c

toLowerCase(s) == [i \in 1..Len(s) |-> ToLowerChar(s[i])]
toUpperCase(s) == [i \in 1..Len(s) |-> ToUpperChar(s[i])]

\* SQL lower(x): folds the ASCII letters
SqlLower(s) == [i \in 1..Len(s) |-> ToLowerChar(s[i])]

IsWhiteSpace(c) == c = " "

RECURSIVE TrimStart(_)
TrimStart(s) ==
  IF s # << >> /\ IsWhiteSpace(Head(s)) THEN TrimStart(Tail(s)) ELSE s

RECURSIVE TrimEnd(_)
TrimEnd(s) ==
  IF s # << >> /\ IsWhiteSpace(s[Len(s)])
  THEN TrimEnd(SubSeq(s, 1, Len(s) - 1))
  ELSE s

\* String.prototype.trim
trim(s) == TrimEnd(TrimStart(s))

\* String.prototype.split(sep) for a one-character separator
RECURSIVE SplitFrom(_, _, _)
SplitFrom(s, sep, cur) ==
  IF s = << >> THEN <<cur>>
  ELSE IF Head(s) = sep THEN <<cur>> \o SplitFrom(Tail(s), sep, << >>)
  ELSE SplitFrom(Tail(s), sep, Append(cur, Head(s)))

split(s, sep) == SplitFrom(s, sep, << >>)

\* Array.prototype.filter(x => x.length > 0)
RECURSIVE DropEmpty(_)
DropEmpty(s) ==
  IF s = << >> THEN << >>
  ELSE IF Head(s) # << >> THEN <<Head(s)>> \o DropEmpty(Tail(s))
  ELSE DropEmpty(Tail(s))

Range(s) == {s[i] : i \in 1..Len(s)}

\* an optional value (undefined or a value)
None == << >>
Some(x) == <<x>>
IsSome(o) == o # << >>
Val(o) == o[1]

\* the name trimmed but not lowercased
Canonical_TrimOnly(name) == trim(name)

\* the canonical form of a tag name, as findOrCreateTag and updateTag compute it
Canonical(name) == toLowerCase(trim(name))

(***************************************************************************)
(* The store: the tables of initializeDatabase.                            *)
(***************************************************************************)
TaskIds == 1..MaxTasks
TagIds == 1..MaxTags

\* tags.name is UNIQUE COLLATE NOCASE: two names collide when they are equal
\* after folding the ASCII letters
NocaseEq(x, y) == SqlLower(x) = SqlLower(y)

\* tags.name declared without UNIQUE: no write is ever rejected
TagNameTaken_NoConstraint(name, id) == FALSE

\* would writing `name` to row `id` of tags violate the UNIQUE constraint?
TagNameTaken(name, id) ==
  \E g \in DOMAIN tags : g # id /\ NocaseEq(tags[g], name)

\* SELECT id, name FROM tags WHERE lower(name) = lower(?)
SelectTagByName(name) ==
  {g \in DOMAIN tags : SqlLower(tags[g]) = SqlLower(name)}

\* the WHERE clause without "AND userId = ?"
OwnedBy_AnyUser(id, userId) == id \in DOMAIN tasks

\* SELECT ... FROM tasks WHERE id = ? AND userId = ?
OwnedBy(id, userId) == id \in DOMAIN tasks /\ tasks[id].userId = userId

\* getTagsForTask: SELECT t.id, t.name FROM tags t JOIN task_tags tt ...
getTagsForTask(taskId) ==
  {[id |-> g, name |-> tags[g]] :
     g \in {h \in DOMAIN tags : <<taskId, h>> \in task_tags}}

\* transformTaskFromDb: completed 0/1 becomes a boolean
transformTaskFromDb(row) == [row EXCEPT !.completed = (row.completed = 1)]

\* the driver binds a JS boolean as 1 / 0
BindBool(b) == IF b THEN 1 ELSE 0

(***************************************************************************)
(* Requests.  req[p] is the request process p runs: its arguments, its     *)
(* position (pc), the promises it has started and, at pc "done" or         *)
(* "failed", its response.                                                 *)
(*   threads: the findOrCreateTag calls started by addTagsToTask           *)
(*   tagIds, pend: the INSERT OR IGNORE statements started by addTagsToTask*)
(*   fetch: the getTagsForTask calls started by getAllTasks                *)
(*   status: "ok" | "notfound" (undefined / null / false) | "error" (a     *)
(*           store error thrown) | "error:<code>" (an AppError)            *)
(*   old (history): the row and the tag ids of the task when an update or  *)
(*           delete request found it; the name of the tag when a rename    *)
(*           wrote the new one; the tasks and associations when a          *)
(*           deleteTag passed its permission check                         *)
(***************************************************************************)
Idle ==
  [op |-> "idle", pc |-> "idle", userId |-> 0, taskId |-> 0, args |-> << >>,
   names |-> << >>, threads |-> << >>, tagIds |-> << >>, pend |-> {},
   fetch |-> {},
   cont |-> "done",
   loc |-> << >>, status |-> "none", result |-> << >>, old |-> << >>]

\* history: task id with its row and tag ids as they are now
Snapshot(id) ==
  [row |-> tasks[id], tags |-> {g \in DOMAIN tags : <<id, g>> \in task_tags}]

Init ==
  /\ tasks = << >>
  /\ nextTaskId = 1
  /\ tags = << >>
  /\ nextTagId = 1
  /\ task_tags = {}
  /\ now = 0
  /\ req = [p \in Procs |-> Idle]
  /\ nreq = 0

(***************************************************************************)
(* Inputs of the requests.                                                 *)
(***************************************************************************)
Titles == {<<"a">>}
Descriptions == {<<"d">>}

\* tag names as a caller may give them: two spellings of "a", "b", and a
\* name that is empty after trimming
TagNameInputs == {<<"a">>, <<" ", "A">>, <<"b">>, <<" ">>}
MaxTagList == 2
TagLists ==
  {<< >>} \cup {<<x>> : x \in TagNameInputs}
          \cup {<<x, y>> : x \in TagNameInputs, y \in TagNameInputs}
TagListsUpTo(n) == {l \in TagLists : Len(l) <= n}

OptOf(S) == {None} \cup {Some(x) : x \in S}

NoTask == [title |-> None, description |-> None, completed |-> None, tags |-> None]

\* bodies of POST /tasks (taskSchema)
CreateInputs ==
  {[NoTask EXCEPT !.title = Some(t), !.completed = c, !.tags = l] :
     t \in Titles, c \in {None, Some(TRUE)},
     l \in {None, Some(<<<<"a">>>>), Some(<<<<"a">>, <<" ", "A">>>>),
            Some(<<<<"a">>, <<"b">>>>), Some(<<<<"b">>>>)}}

\* bodies of PUT /tasks/:id (updateTaskSchema): partial updates
UpdateInputs ==
  {[NoTask EXCEPT !.completed = Some(TRUE)],
   [NoTask EXCEPT !.completed = Some(FALSE)],
   [NoTask EXCEPT !.tags = Some(<< >>)],
   [NoTask EXCEPT !.tags = Some(<<<<" ", "A">>>>)],
   [NoTask EXCEPT !.tags = Some(<<<<"b">>, <<"a">>>>)]}

(***************************************************************************)
(* A workload W names the inputs the requests of a specification draw      *)
(* from: users, taskIds, tagIds, creates, updates, names (findOrCreateTag  *)
(* and updateTag), attaches (tag lists of direct addTagsToTask calls),     *)
(* lists (options of getAllTasks) and maxReq, the number of requests       *)
(* accepted (NoLimit: any number).                                         *)
(***************************************************************************)
NoLimit == 0 - 1

\* process p is free and the workload admits one more request
Accept(p, W) ==
  /\ req[p].pc = "idle"
  /\ W.maxReq # NoLimit => nreq < W.maxReq
  /\ nreq' = IF W.maxReq = NoLimit THEN nreq ELSE nreq + 1

(***************************************************************************)
(* Helpers on request records.                                             *)
(***************************************************************************)
Finish(r, status, result) ==
  [r EXCEPT !.pc = "done", !.status = status, !.result = result]

\* a promise rejected: the request fails; the promises already started by
\* Promise.all keep running
Fail(r) == [r EXCEPT !.pc = "failed", !.status = "error", !.result = << >>]

ThreadsLive(r) == \E i \in 1..Len(r.threads) : r.threads[i].pc # "done"

\* the continuation after addTagsToTask returns
AfterAttach(r) ==
  IF r.cont = "done" THEN Finish(r, "ok", << >>) ELSE [r EXCEPT !.pc = r.cont]

\* the ids of the non-null tags, in the order of the names (line 93)
RECURSIVE NonNullIds(_)
NonNullIds(ths) ==
  IF ths = << >> THEN << >>
  ELSE IF Head(ths).id # 0 THEN <<Head(ths).id>> \o NonNullIds(Tail(ths))
  ELSE NonNullIds(Tail(ths))

(***************************************************************************)
(* findOrCreateTag(name), lines 23-66: one thread per call.                *)
(*   pc "select"  -> line 35;  "insert" -> line 40;  "refetch" -> line 47  *)
(*   id = 0 is the null of line 26; err: the call threw                    *)
(*   raced (history): the INSERT of this call hit the UNIQUE constraint    *)
(*   disturbed (history): a tag row was renamed or deleted during the call *)
(***************************************************************************)
NewThread_NoEmptyCheck(name) ==
  [name |-> name, pc |-> "select", id |-> 0, rname |-> << >>, err |-> FALSE,
   raced |-> FALSE, disturbed |-> FALSE]

NewThread(name) ==
  IF trim(name) = << >>
  THEN [name |-> name, pc |-> "done", id |-> 0, rname |-> << >>, err |-> FALSE,
        raced |-> FALSE, disturbed |-> FALSE]
  ELSE [name |-> name, pc |-> "select", id |-> 0, rname |-> << >>, err |-> FALSE,
        raced |-> FALSE, disturbed |-> FALSE]

\* Promise.all over the threads of request r, after thread i became th
\* (lines 92-100 for addTagsToTask; the caller itself for a direct call)
Joined(r, i, th) ==
  LET r1 == [r EXCEPT !.threads[i] = th] IN
  IF r.pc # "foc" THEN r1
  ELSE IF th.err THEN Fail(r1)
  ELSE IF ThreadsLive(r1) THEN r1
  ELSE IF r.op = "findOrCreate"
       THEN Finish(r1, IF th.id = 0 THEN "notfound" ELSE "ok",
                   [id |-> th.id, name |-> th.rname])
  ELSE LET ids == NonNullIds(r1.threads) IN
       IF Len(ids) > 0
       THEN [r1 EXCEPT !.pc = "assoc", !.tagIds = ids, !.pend = 1..Len(ids)]
       ELSE AfterAttach(r1)

\* line 35: SELECT id, name FROM tags WHERE lower(name) = lower(?)
FocSelect(p, i) ==
  /\ i \in 1..Len(req[p].threads)
  /\ req[p].threads[i].pc = "select"
  /\ LET th == req[p].threads[i]
         canonicalTagName == Canonical(th.name)
         found == SelectTagByName(canonicalTagName)
         th2 == IF found # {}
                THEN [th EXCEPT !.pc = "done", !.id = CHOOSE g \in found : TRUE,
                                !.rname = canonicalTagName]
                ELSE [th EXCEPT !.pc = "insert"]
     IN req' = [req EXCEPT ![p] = Joined(req[p], i, th2)]
  /\ UNCHANGED <<store, now, nreq>>

\* the INSERT of line 40 without the catch of lines 45-56: the UNIQUE
\* violation is thrown to the caller
FocInsert_NoRefetch(p, i) ==
  /\ i \in 1..Len(req[p].threads)
  /\ req[p].threads[i].pc = "insert"
  /\ LET th == req[p].threads[i]
         canonicalTagName == Canonical(th.name)
     IN IF TagNameTaken(canonicalTagName, 0)
        THEN /\ req' = [req EXCEPT ![p] =
                          Joined(req[p], i, [th EXCEPT !.pc = "done", !.err = TRUE])]
             /\ UNCHANGED <<tags, nextTagId>>
        ELSE /\ nextTagId <= MaxTags
             /\ tags' = (nextTagId :> canonicalTagName) @@ tags
             /\ nextTagId' = nextTagId + 1
             /\ req' = [req EXCEPT ![p] =
                          Joined(req[p], i,
                                 [th EXCEPT !.pc = "done", !.id = nextTagId,
                                            !.rname = canonicalTagName])]
  /\ UNCHANGED <<tasks, nextTaskId, task_tags, now, nreq>>

\* line 40: INSERT INTO tags (name) VALUES (?); a UNIQUE violation is caught
\* at line 45 and leads to the re-fetch
FocInsert(p, i) ==
  /\ i \in 1..Len(req[p].threads)
  /\ req[p].threads[i].pc = "insert"
  /\ LET th == req[p].threads[i]
         canonicalTagName == Canonical(th.name)
     IN IF TagNameTaken(canonicalTagName, 0)
        THEN /\ req' = [req EXCEPT ![p].threads[i].pc = "refetch",
                                    ![p].threads[i].raced = TRUE]
             /\ UNCHANGED <<tags, nextTagId>>
        ELSE /\ nextTagId <= MaxTags
             /\ tags' = (nextTagId :> canonicalTagName) @@ tags
             /\ nextTagId' = nextTagId + 1
             /\ req' = [req EXCEPT ![p] =
                          Joined(req[p], i,
                                 [th EXCEPT !.pc = "done", !.id = nextTagId,
                                            !.rname = canonicalTagName])]
  /\ UNCHANGED <<tasks, nextTaskId, task_tags, now, nreq>>

\* line 47: the re-fetch after the constraint violation; line 51 throws when
\* the row is not there
FocRefetch(p, i) ==
  /\ i \in 1..Len(req[p].threads)
  /\ req[p].threads[i].pc = "refetch"
  /\ LET th == req[p].threads[i]
         found == SelectTagByName(Canonical(th.name))
         th2 == IF found # {}
                THEN LET g == CHOOSE g \in found : TRUE IN
                     [th EXCEPT !.pc = "done", !.id = g, !.rname = tags[g]]
                ELSE [th EXCEPT !.pc = "done", !.err = TRUE]
     IN req' = [req EXCEPT ![p] = Joined(req[p], i, th2)]
  /\ UNCHANGED <<store, now, nreq>>

\* a direct call of the exported findOrCreateTag
FocStart(p, W) ==
  /\ Accept(p, W)
  /\ \E name \in W.names :
       LET th == NewThread(name)
           r == [Idle EXCEPT !.op = "findOrCreate", !.pc = "foc",
                             !.names = <<name>>, !.threads = <<th>>]
       IN req' = [req EXCEPT ![p] =
                    IF th.pc = "done" THEN Finish(r, "notfound", [id |-> 0, name |-> << >>])
                    ELSE r]
  /\ UNCHANGED <<store, now>>

(***************************************************************************)
(* addTagsToTask(taskId, tagNames, userId), lines 80-101.                  *)
(***************************************************************************)
\* a direct call of the exported addTagsToTask (lines 81-83: nothing to add)
AttachStart(p, W) ==
  /\ Accept(p, W)
  /\ \E id \in W.taskIds, u \in W.users, names \in W.attaches :
       LET r == [Idle EXCEPT !.op = "attach", !.pc = "attach_check",
                             !.userId = u, !.taskId = id, !.names = names]
       IN req' = [req EXCEPT ![p] =
                    IF Len(names) = 0 THEN Finish(r, "ok", << >>) ELSE r]
  /\ UNCHANGED <<store, now>>

\* lines 86-92: the ownership check, then one findOrCreateTag per name
AttachCheck(p) ==
  /\ req[p].pc = "attach_check"
  /\ LET r == req[p] IN
     IF ~OwnedBy(r.taskId, r.userId)
     THEN req' = [req EXCEPT ![p] = AfterAttach(r)]
     ELSE LET ths == [i \in 1..Len(r.names) |-> NewThread(r.names[i])]
              r1 == [r EXCEPT !.pc = "foc", !.threads = ths]
          IN req' = [req EXCEPT ![p] =
                       IF ThreadsLive(r1) THEN r1 ELSE AfterAttach(r1)]
  /\ UNCHANGED <<store, now, nreq>>

\* line 97: INSERT OR IGNORE INTO task_tags; the foreign keys (PRAGMA
\* foreign_keys = ON) reject a row whose task or tag is gone
AssocInsert(p, i) ==
  /\ i \in req[p].pend
  /\ LET r == req[p]
         g == r.tagIds[i]
         fkOk == r.taskId \in DOMAIN tasks /\ g \in DOMAIN tags
         r1 == [r EXCEPT !.pend = r.pend \ {i}]
     IN /\ task_tags' = IF fkOk THEN task_tags \cup {<<r.taskId, g>>} ELSE task_tags
        /\ req' = [req EXCEPT ![p] =
                     IF r.pc # "assoc" THEN r1
                     ELSE IF ~fkOk THEN Fail(r1)
                     ELSE IF r1.pend = {} THEN AfterAttach(r1)
                     ELSE r1]
  /\ UNCHANGED <<tasks, nextTaskId, tags, nextTagId, now, nreq>>

(***************************************************************************)
(* getTaskById(id, userId), lines 245-255.                                 *)
(***************************************************************************)
\* line 247, applied to request record r
GetTaskOf(r) ==
  IF OwnedBy(r.taskId, r.userId)
  THEN [r EXCEPT !.pc = "get_tags", !.loc = transformTaskFromDb(tasks[r.taskId])]
  ELSE Finish(r, "notfound", << >>)

GetByIdSelect(p, W) ==
  /\ Accept(p, W)
  /\ \E id \in W.taskIds, u \in W.users :
       req' = [req EXCEPT ![p] =
                 GetTaskOf([Idle EXCEPT !.op = "getById", !.userId = u, !.taskId = id])]
  /\ UNCHANGED <<store, now>>

\* the getTaskById that ends createTask and updateTask (lines 278, 311)
GetTask(p) ==
  /\ req[p].pc = "get_task"
  /\ req' = [req EXCEPT ![p] = GetTaskOf(req[p])]
  /\ UNCHANGED <<store, now, nreq>>

\* line 253
GetTags(p) ==
  /\ req[p].pc = "get_tags"
  /\ req' = [req EXCEPT ![p] =
               Finish(req[p], "ok",
                      [task |-> (req[p].taskId :> req[p].loc),
                       tags |-> getTagsForTask(req[p].taskId)])]
  /\ UNCHANGED <<store, now, nreq>>

(***************************************************************************)
(* createTask(taskData, userId), lines 258-279.                            *)
(***************************************************************************)
CreateInsert(p, W) ==
  /\ Accept(p, W)
  /\ nextTaskId <= MaxTasks
  /\ \E u \in W.users, d \in W.creates :
       LET completedInput == IF d.completed = None THEN FALSE ELSE Val(d.completed)
           row == [title |-> Val(d.title),
                   description |-> IF d.description = None THEN << >> ELSE Val(d.description),
                   completed |-> BindBool(completedInput),
                   createdAt |-> now, updatedAt |-> now, userId |-> u]
           withTags == IsSome(d.tags) /\ Len(Val(d.tags)) > 0
       IN /\ tasks' = (nextTaskId :> row) @@ tasks
          /\ nextTaskId' = nextTaskId + 1
          /\ req' = [req EXCEPT ![p] =
                       [Idle EXCEPT !.op = "create", !.userId = u,
                                    !.taskId = nextTaskId, !.args = d,
                                    !.names = IF withTags THEN Val(d.tags) ELSE << >>,
                                    !.cont = "get_task",
                                    !.pc = IF withTags THEN "attach_check" ELSE "get_task"]]
  /\ UNCHANGED <<tags, nextTagId, task_tags, now>>

(***************************************************************************)
(* updateTask(id, updateData, userId), lines 282-312.                      *)
(***************************************************************************)
\* line 285 (getTaskById, first statement) and lines 286-288
UpdateGetTask(p, W) ==
  /\ Accept(p, W)
  /\ \E id \in W.taskIds, u \in W.users, d \in W.updates :
       LET r == [Idle EXCEPT !.op = "update", !.userId = u, !.taskId = id,
                             !.args = d, !.cont = "get_task"]
       IN req' = [req EXCEPT ![p] =
                    IF OwnedBy(id, u)
                    THEN [r EXCEPT !.pc = "upd_get_tags",
                                   !.loc = transformTaskFromDb(tasks[id]),
                                   !.old = Snapshot(id)]
                    ELSE Finish(r, "notfound", << >>)]
  /\ UNCHANGED <<store, now>>

\* the new values with an absent completed taken as false
UpdateGetTags_ResetAbsent(p) ==
  /\ req[p].pc = "upd_get_tags"
  /\ LET r == req[p]
         d == r.args
         existingTask == r.loc
     IN req' = [req EXCEPT ![p] =
                  [r EXCEPT !.pc = "upd_write",
                            !.loc = [title |-> IF IsSome(d.title) THEN Val(d.title)
                                               ELSE existingTask.title,
                                     description |-> IF IsSome(d.description)
                                                     THEN Val(d.description)
                                                     ELSE existingTask.description,
                                     completed |-> IF IsSome(d.completed)
                                                   THEN Val(d.completed)
                                                   ELSE FALSE,
                                     updatedAt |-> now]]]
  /\ UNCHANGED <<store, now, nreq>>

\* line 285 (getTaskById, second statement) and lines 290-295: the new values
UpdateGetTags(p) ==
  /\ req[p].pc = "upd_get_tags"
  /\ LET r == req[p]
         d == r.args
         existingTask == r.loc
     IN req' = [req EXCEPT ![p] =
                  [r EXCEPT !.pc = "upd_write",
                            !.loc = [title |-> IF IsSome(d.title) THEN Val(d.title)
                                               ELSE existingTask.title,
                                     description |-> IF IsSome(d.description)
                                                     THEN Val(d.description)
                                                     ELSE existingTask.description,
                                     completed |-> IF IsSome(d.completed)
                                                   THEN Val(d.completed)
                                                   ELSE existingTask.completed,
                                     updatedAt |-> now]]]
  /\ UNCHANGED <<store, now, nreq>>

\* lines 297-300: UPDATE tasks SET ... WHERE id = ? AND userId = ?
UpdateWrite(p) ==
  /\ req[p].pc = "upd_write"
  /\ LET r == req[p]
         n == r.loc
     IN /\ tasks' = IF OwnedBy(r.taskId, r.userId)
                    THEN [tasks EXCEPT ![r.taskId] =
                            [@ EXCEPT !.title = n.title,
                                      !.description = n.description,
                                      !.completed = BindBool(n.completed),
                                      !.updatedAt = n.updatedAt]]
                    ELSE tasks
        /\ req' = [req EXCEPT ![p] =
                     [r EXCEPT !.pc = IF IsSome(r.args.tags) THEN "clear"
                                      ELSE "get_task",
                               !.loc = << >>]]
  /\ UNCHANGED <<nextTaskId, tags, nextTagId, task_tags, now, nreq>>

\* lines 305-307 without the clearTagsForTask of line 304
UpdateClear_NoClear(p) ==
  /\ req[p].pc = "clear"
  /\ LET r == req[p]
         names == Val(r.args.tags)
     IN req' = [req EXCEPT ![p] =
                  IF Len(names) > 0
                  THEN [r EXCEPT !.pc = "attach_check", !.names = names]
                  ELSE [r EXCEPT !.pc = "get_task"]]
  /\ UNCHANGED <<store, now, nreq>>

\* line 304: clearTagsForTask, then lines 305-307
UpdateClear(p) ==
  /\ req[p].pc = "clear"
  /\ LET r == req[p]
         names == Val(r.args.tags)
     IN /\ task_tags' = {tt \in task_tags : tt[1] # r.taskId}
        /\ req' = [req EXCEPT ![p] =
                     IF Len(names) > 0
                     THEN [r EXCEPT !.pc = "attach_check", !.names = names]
                     ELSE [r EXCEPT !.pc = "get_task"]]
  /\ UNCHANGED <<tasks, nextTaskId, tags, nextTagId, now, nreq>>

(***************************************************************************)
(* deleteTask(id, userId), lines 315-321.                                  *)
(***************************************************************************)
\* the DELETE with task_tags.task_id declared without ON DELETE CASCADE (and
\* the foreign keys not enforced)
DeleteTask_NoCascade(p, W) ==
  /\ Accept(p, W)
  /\ \E id \in W.taskIds, u \in W.users :
       LET hit == OwnedBy(id, u)
           r == [Idle EXCEPT !.op = "delete", !.userId = u, !.taskId = id,
                             !.old = IF hit THEN Snapshot(id) ELSE << >>]
       IN /\ tasks' = IF hit THEN [t \in DOMAIN tasks \ {id} |-> tasks[t]] ELSE tasks
          /\ req' = [req EXCEPT ![p] =
                       Finish(r, IF hit THEN "ok" ELSE "notfound", << >>)]
  /\ UNCHANGED <<nextTaskId, tags, nextTagId, task_tags, now>>

\* DELETE FROM tasks WHERE id = ? AND userId = ?, with the ON DELETE CASCADE
\* of task_tags.task_id
DeleteTask(p, W) ==
  /\ Accept(p, W)
  /\ \E id \in W.taskIds, u \in W.users :
       LET hit == OwnedBy(id, u)
           r == [Idle EXCEPT !.op = "delete", !.userId = u, !.taskId = id,
                             !.old = IF hit THEN Snapshot(id) ELSE << >>]
       IN /\ tasks' = IF hit THEN [t \in DOMAIN tasks \ {id} |-> tasks[t]] ELSE tasks
          /\ task_tags' = IF hit THEN {tt \in task_tags : tt[1] # id} ELSE task_tags
          /\ req' = [req EXCEPT ![p] =
                       Finish(r, IF hit THEN "ok" ELSE "notfound", << >>)]
  /\ UNCHANGED <<nextTaskId, tags, nextTagId, now>>

(***************************************************************************)
(* The response is sent; the process takes the next request once the       *)
(* promises it started have settled.                                       *)
(***************************************************************************)
Return(p) ==
  /\ req[p].pc \in {"done", "failed"}
  /\ ~ThreadsLive(req[p])
  /\ req[p].pend = {}
  /\ req' = [req EXCEPT ![p] = Idle]
  /\ UNCHANGED <<store, now, nreq>>

\* the clock of new Date() advances
Tick ==
  /\ now < MaxClock
  /\ now' = now + 1
  /\ UNCHANGED <<store, req, nreq>>

(***************************************************************************)
(* updateTag(tagId, newName, userId), taskRoutes.js lines 269-315.         *)
(***************************************************************************)
\* the permission query without "t.userId = ?"
userUsesTag_AnyUser(tagId, userId) ==
  \E tt \in task_tags : tt[2] = tagId /\ tt[1] \in DOMAIN tasks

\* lines 284-289 and 334-339: does the user own a task that carries the tag?
userUsesTag(tagId, userId) ==
  \E tt \in task_tags :
    tt[2] = tagId /\ tt[1] \in DOMAIN tasks /\ tasks[tt[1]].userId = userId

\* history: every findOrCreateTag call in flight or just answered has seen a
\* tag row renamed or deleted
Disturb(rq) ==
  [p \in DOMAIN rq |->
     [rq[p] EXCEPT !.threads =
        [i \in 1..Len(rq[p].threads) |-> [rq[p].threads[i] EXCEPT !.disturbed = TRUE]]]]

\* lines 271-281
RenameSelect(p, W) ==
  /\ Accept(p, W)
  /\ \E g \in W.tagIds, newName \in W.names, u \in W.users :
       LET r == [Idle EXCEPT !.op = "rename", !.userId = u,
                             !.args = [tagId |-> g, newName |-> newName]]
       IN req' = [req EXCEPT ![p] =
                    IF trim(newName) = << >> THEN Finish(r, "error:400", << >>)
                    ELSE IF g \notin DOMAIN tags THEN Finish(r, "error:404", << >>)
                    ELSE [r EXCEPT !.pc = "ren_perm"]]
  /\ UNCHANGED <<store, now>>

\* lines 284-293
RenamePerm(p) ==
  /\ req[p].pc = "ren_perm"
  /\ req' = [req EXCEPT ![p] =
               IF userUsesTag(req[p].args.tagId, req[p].userId)
               THEN [req[p] EXCEPT !.pc = "ren_conflict"]
               ELSE Finish(req[p], "error:403", << >>)]
  /\ UNCHANGED <<store, now, nreq>>

\* the conflict query without "AND id != ?"
RenameConflict_NoIdFilter(p) ==
  /\ req[p].pc = "ren_conflict"
  /\ LET canonicalNewName == Canonical(req[p].args.newName)
         conflictingTag ==
           \E g \in DOMAIN tags : SqlLower(tags[g]) = canonicalNewName
     IN req' = [req EXCEPT ![p] =
                  IF conflictingTag THEN Finish(req[p], "error:409", << >>)
                  ELSE [req[p] EXCEPT !.pc = "ren_write"]]
  /\ UNCHANGED <<store, now, nreq>>

\* lines 296-303: SELECT id FROM tags WHERE lower(name) = ? AND id != ?
RenameConflict(p) ==
  /\ req[p].pc = "ren_conflict"
  /\ LET canonicalNewName == Canonical(req[p].args.newName)
         conflictingTag ==
           \E g \in DOMAIN tags :
             SqlLower(tags[g]) = canonicalNewName /\ g # req[p].args.tagId
     IN req' = [req EXCEPT ![p] =
                  IF conflictingTag THEN Finish(req[p], "error:409", << >>)
                  ELSE [req[p] EXCEPT !.pc = "ren_write"]]
  /\ UNCHANGED <<store, now, nreq>>

\* lines 305-314 with an UPDATE that writes no row
RenameWrite_NoUpdate(p) ==
  /\ req[p].pc = "ren_write"
  /\ LET g == req[p].args.tagId
         canonicalNewName == Canonical(req[p].args.newName)
         r == [req[p] EXCEPT !.old = IF g \in DOMAIN tags
                                       THEN [name |-> tags[g]] ELSE << >>]
     IN req' = [req EXCEPT ![p] =
                  Finish(r, "ok", [id |-> g, name |-> canonicalNewName])]
  /\ UNCHANGED <<store, now, nreq>>

\* lines 305-314: UPDATE tags SET name = ? WHERE id = ?
RenameWrite(p) ==
  /\ req[p].pc = "ren_write"
  /\ LET g == req[p].args.tagId
         canonicalNewName == Canonical(req[p].args.newName)
     IN IF g \in DOMAIN tags /\ TagNameTaken(canonicalNewName, g)
        THEN /\ req' = [req EXCEPT ![p] = Finish(req[p], "error:409", << >>)]
             /\ UNCHANGED tags
        ELSE LET r == [req[p] EXCEPT !.old = IF g \in DOMAIN tags
                                               THEN [name |-> tags[g]] ELSE << >>]
                 rq == [req EXCEPT ![p] =
                          Finish(r, "ok", [id |-> g, name |-> canonicalNewName])]
             IN /\ tags' = IF g \in DOMAIN tags
                           THEN [tags EXCEPT ![g] = canonicalNewName]
                           ELSE tags
                /\ req' = IF g \in DOMAIN tags /\ tags[g] # canonicalNewName
                          THEN Disturb(rq) ELSE rq
  /\ UNCHANGED <<tasks, nextTaskId, nextTagId, task_tags, now, nreq>>

(***************************************************************************)
(* deleteTag(tagId, userId), taskRoutes.js lines 325-358.                  *)
(***************************************************************************)
\* lines 328-331
DeleteTagSelect(p, W) ==
  /\ Accept(p, W)
  /\ \E g \in W.tagIds, u \in W.users :
       LET r == [Idle EXCEPT !.op = "deleteTag", !.userId = u,
                             !.args = [tagId |-> g]]
       IN req' = [req EXCEPT ![p] =
                    IF g \notin DOMAIN tags THEN Finish(r, "error:404", << >>)
                    ELSE [r EXCEPT !.pc = "dt_perm"]]
  /\ UNCHANGED <<store, now>>

\* history: the tasks and associations as a query sees them now
Seen == [tasks |-> tasks, task_tags |-> task_tags]

\* deleteTag without the permission check of lines 334-343
DeleteTagPerm_Skip(p) ==
  /\ req[p].pc = "dt_perm"
  /\ req' = [req EXCEPT ![p] = [req[p] EXCEPT !.pc = "dt_inuse", !.old = Seen]]
  /\ UNCHANGED <<store, now, nreq>>

\* lines 334-343
DeleteTagPerm(p) ==
  /\ req[p].pc = "dt_perm"
  /\ req' = [req EXCEPT ![p] =
               IF userUsesTag(req[p].args.tagId, req[p].userId)
               THEN [req[p] EXCEPT !.pc = "dt_inuse", !.old = Seen]
               ELSE Finish(req[p], "error:403", << >>)]
  /\ UNCHANGED <<store, now, nreq>>

\* deleteTag without the usage check of lines 346-350
DeleteTagInUse_NoCheck(p) ==
  /\ req[p].pc = "dt_inuse"
  /\ req' = [req EXCEPT ![p] = [req[p] EXCEPT !.pc = "dt_delete"]]
  /\ UNCHANGED <<store, now, nreq>>

\* lines 346-350: SELECT 1 FROM task_tags WHERE tag_id = ? LIMIT 1
DeleteTagInUse(p) ==
  /\ req[p].pc = "dt_inuse"
  /\ req' = [req EXCEPT ![p] =
               IF \E tt \in task_tags : tt[2] = req[p].args.tagId
               THEN Finish(req[p], "error:400", << >>)
               ELSE [req[p] EXCEPT !.pc = "dt_delete"]]
  /\ UNCHANGED <<store, now, nreq>>

\* lines 353-357: DELETE FROM tags WHERE id = ?, with the ON DELETE CASCADE
\* of task_tags.tag_id
DeleteTagDelete(p) ==
  /\ req[p].pc = "dt_delete"
  /\ LET g == req[p].args.tagId
         hit == g \in DOMAIN tags
     IN /\ tags' = IF hit THEN [h \in DOMAIN tags \ {g} |-> tags[h]] ELSE tags
        /\ task_tags' = IF hit THEN {tt \in task_tags : tt[2] # g} ELSE task_tags
        /\ LET rq == [req EXCEPT ![p] =
                        Finish(req[p], IF hit THEN "ok" ELSE "error:404", << >>)]
           IN req' = IF hit THEN Disturb(rq) ELSE rq
  /\ UNCHANGED <<tasks, nextTaskId, nextTagId, now, nreq>>

(***************************************************************************)
(* findTagsByPrefix(prefix, userId, limit), taskRoutes.js lines 368-381,   *)
(* called by autocompleteTags, tagController.js lines 64-90.               *)
(***************************************************************************)
\* x < y for TEXT values, by the place of the characters in chars
RECURSIVE TextBefore(_, _, _)
TextBefore(x, y, chars) ==
  IF y = << >> THEN FALSE
  ELSE IF x = << >> THEN TRUE
  ELSE IF Head(x) = Head(y) THEN TextBefore(Tail(x), Tail(y), chars)
  ELSE (CHOOSE i \in 1..Len(chars) : chars[i] = Head(x))
         < (CHOOSE i \in 1..Len(chars) : chars[i] = Head(y))

\* the characters of the model in ASCII order
CodeOrder ==
  <<" ", "%", ",", "1", "2", "A", "B", "C", "D", "E", "S", "_",
    "a", "b", "c", "d", "e", "s">>

\* SQL: s LIKE pat, with the wildcards % (any run of characters) and _ (any
\* one character); the other characters match without regard to ASCII case
RECURSIVE LikeMatch(_, _)
LikeMatch(pat, s) ==
  IF pat = << >> THEN s = << >>
  ELSE IF Head(pat) = "%"
       THEN \E k \in 0..Len(s) : LikeMatch(Tail(pat), SubSeq(s, k + 1, Len(s)))
  ELSE IF s = << >> THEN FALSE
  ELSE IF Head(pat) = "_" THEN LikeMatch(Tail(pat), Tail(s))
  ELSE /\ ToLowerChar(Head(pat)) = ToLowerChar(Head(s))
       /\ LikeMatch(Tail(pat), Tail(s))

\* lines 371-378: the DISTINCT rows of the join, WHERE task.userId = ? AND
\* lower(t.name) LIKE ?
PrefixRows(searchPrefix, userId) ==
  {g \in DOMAIN tags :
     /\ \E tt \in task_tags :
          tt[2] = g /\ tt[1] \in DOMAIN tasks /\ tasks[tt[1]].userId = userId
     /\ LikeMatch(searchPrefix, SqlLower(tags[g]))}

\* ORDER BY lower(t.name) ASC: the rows G in that order (the names differ,
\* tags.name being UNIQUE COLLATE NOCASE)
ByLowerName(G) ==
  CHOOSE sq \in [1..Cardinality(G) -> G] :
    \A i \in 1..Cardinality(G), j \in 1..Cardinality(G) :
      i < j => TextBefore(SqlLower(tags[sq[i]]), SqlLower(tags[sq[j]]), CodeOrder)

\* lines 368-381
findTagsByPrefix(prefix, userId, limit) ==
  LET searchPrefix == toLowerCase(prefix) \o <<"%">>
      ord == ByLowerName(PrefixRows(searchPrefix, userId))
      n == IF Len(ord) < limit THEN Len(ord) ELSE limit
  IN [i \in 1..n |-> [id |-> ord[i], name |-> tags[ord[i]]]]

\* tagController.js lines 64-90, showAll not given: an empty q answers [] at
\* once; limit is parseInt(req.query.limit, 10) || 10
autocompleteTags(p, W) ==
  /\ Accept(p, W)
  /\ \E u \in W.users, q \in W.prefixes, l \in W.limits :
       LET limit == IF IsSome(l) /\ Val(l) # 0 THEN Val(l) ELSE 10
           r == [Idle EXCEPT !.op = "autocomplete", !.userId = u,
                             !.args = [q |-> q, limit |-> l]]
       IN req' = [req EXCEPT ![p] =
                    Finish(r, "ok",
                           IF Len(q) < 1 THEN << >>
                           ELSE findTagsByPrefix(q, u, limit))]
  /\ UNCHANGED <<store, now>>

(***************************************************************************)
(* getAllTasks(userId, options), taskService.js lines 110-242.             *)
(***************************************************************************)
\* the characters in the order of their codes (BINARY collation of title)
AsciiChars ==
  <<" ", ",", "1", "2", "A", "B", "C", "D", "E", "S", "_",
    "a", "b", "c", "d", "e", "s">>
CharCode(c) == CHOOSE i \in 1..Len(AsciiChars) : AsciiChars[i] = c

\* x < y for TEXT values
RECURSIVE TextLess(_, _)
TextLess(x, y) ==
  IF y = << >> THEN FALSE
  ELSE IF x = << >> THEN TRUE
  ELSE IF Head(x) = Head(y) THEN TextLess(Tail(x), Tail(y))
  ELSE CharCode(Head(x)) < CharCode(Head(y))

F_createdAt == <<"c", "r", "e", "a", "t", "e", "d", "A", "t">>
F_updatedAt == <<"u", "p", "d", "a", "t", "e", "d", "A", "t">>
F_title == <<"t", "i", "t", "l", "e">>
F_completed == <<"c", "o", "m", "p", "l", "e", "t", "e", "d">>
S_DESC == <<"D", "E", "S", "C">>

\* line 212
allowedFields == {F_createdAt, F_updatedAt, F_title, F_completed}

\* line 126
tagNamesToFilter(o) ==
  IF IsSome(o.tags) /\ Val(o.tags) # << >>
  THEN LET parts == split(Val(o.tags), ",")
       IN DropEmpty([i \in 1..Len(parts) |-> toLowerCase(trim(parts[i]))])
  ELSE << >>

\* line 123
tagMatchMode(o) ==
  IF IsSome(o.tagMatchMode) /\ Val(o.tagMatchMode) # ""
  THEN Val(o.tagMatchMode)
  ELSE "all"

\* lines 140, 184
completedValue(o) == IF Val(o.completed) = "true" THEN 1 ELSE 0

\* lines 221-223
pageOf(o) == IF IsSome(o.page) /\ Val(o.page) # 0 THEN Val(o.page) ELSE 1
limitOf(o) == IF IsSome(o.limit) /\ Val(o.limit) # 0 THEN Val(o.limit) ELSE 10

\* the join of the page query without "t.userId = ?"
PageJoinRows_AnyOwner(userId, o) ==
  LET names == tagNamesToFilter(o) IN
  {tt \in task_tags :
     /\ tt[1] \in DOMAIN tasks /\ tt[2] \in DOMAIN tags
     /\ \E i \in 1..Len(names) : SqlLower(tags[tt[2]]) = SqlLower(names[i])
     /\ IsSome(o.completed) => tasks[tt[1]].completed = completedValue(o)}

\* lines 112-148: the rows of tasks t JOIN task_tags tt JOIN tags ta that pass
\* the WHERE clause of the page query
PageJoinRows(userId, o) ==
  LET names == tagNamesToFilter(o) IN
  {tt \in task_tags :
     /\ tt[1] \in DOMAIN tasks /\ tt[2] \in DOMAIN tags
     /\ tasks[tt[1]].userId = userId
     /\ \E i \in 1..Len(names) : SqlLower(tags[tt[2]]) = SqlLower(names[i])
     /\ IsSome(o.completed) => tasks[tt[1]].completed = completedValue(o)}

\* the page query without the GROUP BY ... HAVING of mode 'all'
PageQueryRows_NoHaving(userId, o) ==
  IF Len(tagNamesToFilter(o)) > 0
  THEN {<<tt[1], 0>> : tt \in PageJoinRows(userId, o)}
  ELSE {<<t, 0>> : t \in
          {u \in DOMAIN tasks :
             /\ tasks[u].userId = userId
             /\ IsSome(o.completed) => tasks[u].completed = completedValue(o)}}

\* lines 112-159: the rows of the page query before ORDER BY and LIMIT, each
\* <<task id, k>>: SELECT DISTINCT t.* (and, in mode 'all', GROUP BY t.* ...
\* HAVING) returns one row per task, k = 0
PageQueryRows(userId, o) ==
  LET names == tagNamesToFilter(o)
      rows == PageJoinRows(userId, o)
  IN IF Len(names) > 0
     THEN IF tagMatchMode(o) = "all"
          THEN {<<t, 0>> : t \in
                  {u \in {tt[1] : tt \in rows} :
                     Cardinality({SqlLower(tags[tt[2]]) :
                                    tt \in {x \in rows : x[1] = u}})
                       = Len(names)}}
          ELSE {<<tt[1], 0>> : tt \in rows}
     ELSE {<<t, 0>> : t \in
             {u \in DOMAIN tasks :
                /\ tasks[u].userId = userId
                /\ IsSome(o.completed) => tasks[u].completed = completedValue(o)}}

\* lines 167-190: the rows of the count query's FROM ... WHERE
CountJoinRows(userId, o) ==
  LET names == tagNamesToFilter(o) IN
  {tt \in task_tags :
     /\ tt[1] \in DOMAIN tasks /\ tt[2] \in DOMAIN tags
     /\ tasks[tt[1]].userId = userId
     /\ \E i \in 1..Len(names) : SqlLower(tags[tt[2]]) = SqlLower(names[i])
     /\ IsSome(o.completed) => tasks[tt[1]].completed = completedValue(o)}

\* the count query with COUNT(t.id) in place of COUNT(DISTINCT t.id) in mode
\* 'any'
CountQuery_JoinRows(userId, o) ==
  LET names == tagNamesToFilter(o)
      rows == CountJoinRows(userId, o)
  IN IF Len(names) > 0 /\ tagMatchMode(o) = "all"
     THEN Cardinality(
            {t \in {tt[1] : tt \in rows} :
               Cardinality({SqlLower(tags[tt[2]]) : tt \in {x \in rows : x[1] = t}})
                 = Len(names)})
     ELSE IF Len(names) > 0
     THEN Cardinality(rows)
     ELSE Cardinality({t \in DOMAIN tasks :
                         /\ tasks[t].userId = userId
                         /\ IsSome(o.completed) =>
                              tasks[t].completed = completedValue(o)})

\* lines 192-207: total
CountQuery(userId, o) ==
  LET names == tagNamesToFilter(o)
      rows == CountJoinRows(userId, o)
  IN IF Len(names) > 0 /\ tagMatchMode(o) = "all"
     THEN Cardinality(
            {t \in {tt[1] : tt \in rows} :
               Cardinality({SqlLower(tags[tt[2]]) : tt \in {x \in rows : x[1] = t}})
                 = Len(names)})
     ELSE IF Len(names) > 0 /\ tagMatchMode(o) = "any"
     THEN Cardinality({tt[1] : tt \in rows})
     ELSE IF Len(names) > 0
     THEN Cardinality(rows)
     ELSE Cardinality({t \in DOMAIN tasks :
                         /\ tasks[t].userId = userId
                         /\ IsSome(o.completed) =>
                              tasks[t].completed = completedValue(o)})

\* lines 210-219: the ORDER BY clause; has = FALSE: none
OrderBy(o) ==
  IF IsSome(o.sortBy) /\ Val(o.sortBy) # << >>
  THEN LET parts == split(Val(o.sortBy), "_")
           field == parts[1]
           desc == Len(parts) >= 2 /\ parts[2] # << >>
                     /\ toUpperCase(parts[2]) = S_DESC
       IN IF field \in allowedFields
          THEN [has |-> TRUE, field |-> field, desc |-> desc]
          ELSE [has |-> FALSE, field |-> field, desc |-> desc]
  ELSE [has |-> TRUE, field |-> F_createdAt, desc |-> TRUE]

\* row a sorts strictly before row b under ORDER BY t.<field> ASC
KeyLess(a, b, field) ==
  IF field = F_title THEN TextLess(a.title, b.title)
  ELSE IF field = F_createdAt THEN a.createdAt < b.createdAt
  ELSE IF field = F_updatedAt THEN a.updatedAt < b.updatedAt
  ELSE a.completed < b.completed

\* the orders in which the store may return `rows`: sorted by the ORDER BY
\* key when there is one, rows with equal keys (and all rows without ORDER BY)
\* in an order SQL leaves unspecified
RowOrders(rows, ob) ==
  LET n == Cardinality(rows) IN
  {s \in [1..n -> rows] :
     /\ \A i, j \in 1..n : i # j => s[i] # s[j]
     /\ ob.has =>
          \A i, j \in 1..n :
            i < j => IF ob.desc
                     THEN ~KeyLess(tasks[s[i][1]], tasks[s[j][1]], ob.field)
                     ELSE ~KeyLess(tasks[s[j][1]], tasks[s[i][1]], ob.field)}

Min(a, b) == IF a < b THEN a ELSE b

\* LIMIT ? without OFFSET ?
PageOf_NoOffset(ord, page, limit) == SubSeq(ord, 1, Min(limit, Len(ord)))

\* lines 221-228: LIMIT ? OFFSET ? over the ordered rows
PageOf(ord, page, limit) ==
  LET offset == (page - 1) * limit
  IN SubSeq(ord, offset + 1, Min(offset + limit, Len(ord)))

\* Math.floor in place of Math.ceil
CeilDiv_Floor(a, b) == a \div b

\* line 240: Math.ceil(total / limit)
CeilDiv(a, b) == IF a % b = 0 THEN a \div b ELSE (a \div b) + 1

\* line 207: the count query
ListCount(p, W) ==
  /\ Accept(p, W)
  /\ \E u \in W.users, o \in W.lists :
       req' = [req EXCEPT ![p] =
                 [Idle EXCEPT !.op = "list", !.pc = "list_page", !.userId = u,
                              !.args = o,
                              !.loc = [total |-> CountQuery(u, o)]]]
  /\ UNCHANGED <<store, now>>

\* line 228: the page query, and lines 230-233: one getTagsForTask per row.
\* totalAtPage records what the count query would have answered on the state
\* the page is read from.
ListPage(p) ==
  /\ req[p].pc = "list_page"
  /\ LET r == req[p]
         o == r.args
     IN \E ord \in RowOrders(PageQueryRows(r.userId, o), OrderBy(o)) :
          LET ids == PageOf(ord, pageOf(o), limitOf(o))
              items == [i \in 1..Len(ids) |->
                          [id |-> ids[i][1],
                           task |-> transformTaskFromDb(tasks[ids[i][1]]),
                           tags |-> {}]]
              r1 == [r EXCEPT !.loc = [total |-> r.loc.total,
                                       totalAtPage |-> CountQuery(r.userId, o),
                                       items |-> items],
                              !.fetch = 1..Len(ids)]
          IN req' = [req EXCEPT ![p] =
                       IF Len(ids) = 0
                       THEN Finish(r1, "ok",
                                   [tasks |-> << >>, total |-> r.loc.total,
                                    page |-> pageOf(o), limit |-> limitOf(o),
                                    totalPages |-> CeilDiv(r.loc.total, limitOf(o))])
                       ELSE [r1 EXCEPT !.pc = "list_tags"]]
  /\ UNCHANGED <<store, now, nreq>>

\* line 231: getTagsForTask(task.id) of row i; lines 235-241 after the last
ListTags(p, i) ==
  /\ req[p].pc = "list_tags"
  /\ i \in req[p].fetch
  /\ LET r == req[p]
         o == r.args
         items == [r.loc.items EXCEPT ![i].tags = getTagsForTask(r.loc.items[i].id)]
         r1 == [r EXCEPT !.loc.items = items, !.fetch = r.fetch \ {i}]
     IN req' = [req EXCEPT ![p] =
                  IF r1.fetch = {}
                  THEN Finish(r1, "ok",
                              [tasks |-> items, total |-> r.loc.total,
                               page |-> pageOf(o), limit |-> limitOf(o),
                               totalPages |-> CeilDiv(r.loc.total, limitOf(o))])
                  ELSE r1]
  /\ UNCHANGED <<store, now, nreq>>

(***************************************************************************)
(* Options of getAllTasks.                                                 *)
(***************************************************************************)
NoOptions ==
  [completed |-> None, tags |-> None, tagMatchMode |-> None, sortBy |-> None,
   page |-> None, limit |-> None]

\* the tags query parameter that lists `names`: the names joined by ","
RECURSIVE JoinNames(_)
JoinNames(names) ==
  IF names = << >> THEN << >>
  ELSE IF Len(names) = 1 THEN names[1]
  ELSE names[1] \o <<",">> \o JoinNames(Tail(names))

\* tag names as a query may list them (<< >>: an empty segment, as in "a,,b")
QueryNames == {<<"a">>, <<" ", "A">>, <<"b">>, <<"B", " ">>, << >>}
MaxQueryNames == 3
QueryNameLists ==
  {l \in UNION {[1..n -> QueryNames] : n \in 1..MaxQueryNames} : l[1] # << >>}

SortParams ==
  {F_title \o <<"_">> \o <<"A", "S", "C">>,
   F_createdAt \o <<"_">> \o <<"d", "e", "s", "c">>}

MaxLimit == 2

\* the options of the list requests that run
ListInputs ==
  {[NoOptions EXCEPT !.tags = Some(<<"a", ",", "b">>), !.limit = Some(1)],
   [NoOptions EXCEPT !.tags = Some(<<"a", ",", "b">>), !.tagMatchMode = Some("any"),
                     !.limit = Some(1), !.page = Some(2)],
   [NoOptions EXCEPT !.tags = Some(<<"a", ",", " ", "A">>), !.tagMatchMode = Some("all")],
   [NoOptions EXCEPT !.tags = Some(<<"a", ",", "b">>), !.tagMatchMode = Some("every")],
   [NoOptions EXCEPT !.completed = Some("true"), !.tags = Some(<<"a">>)]}

(***************************************************************************)
(* The steps of the requests in flight.                                    *)
(***************************************************************************)
FocSteps(P) ==
  \/ \E p \in P, i \in 1..MaxTagList : FocSelect(p, i)
  \/ \E p \in P, i \in 1..MaxTagList : FocInsert(p, i)
  \/ \E p \in P, i \in 1..MaxTagList : FocRefetch(p, i)

AttachSteps(P) ==
  \/ \E p \in P : AttachCheck(p)
  \/ \E p \in P, i \in 1..MaxTagList : AssocInsert(p, i)

ReadBackSteps(P) ==
  \/ \E p \in P : GetTask(p)
  \/ \E p \in P : GetTags(p)

UpdateSteps(P) ==
  \/ \E p \in P : UpdateGetTags(p)
  \/ \E p \in P : UpdateWrite(p)
  \/ \E p \in P : UpdateClear(p)

RenameSteps(P) ==
  \/ \E p \in P : RenamePerm(p)
  \/ \E p \in P : RenameConflict(p)
  \/ \E p \in P : RenameWrite(p)

DeleteTagChecks(P) ==
  \/ \E p \in P : DeleteTagPerm(p)
  \/ \E p \in P : DeleteTagInUse(p)

ListSteps(P) ==
  \/ \E p \in P : ListPage(p)
  \/ \E p \in P, i \in 1..MaxLimit : ListTags(p, i)

(***************************************************************************)
(* SpecSeq: one request at a time (the promises of one request still       *)
(* interleave), the clock standing still.                                  *)
(***************************************************************************)
SeqWorkload ==
  [users |-> Users, taskIds |-> TaskIds, tagIds |-> TagIds,
   creates |-> CreateInputs, updates |-> UpdateInputs,
   names |-> {<<" ", "A">>, <<"b">>, <<" ">>},
   attaches |-> {<<<<"a">>>>, <<<<" ">>, <<"b">>>>, <<<<" ">>>>},
   lists |-> ListInputs, maxReq |-> NoLimit]

\* (DeleteTagDelete is not among the steps: with one request at a time no
\* deleteTag gets as far as its DELETE)
NextSeq ==
  \/ FocStart(1, SeqWorkload)
  \/ AttachStart(1, SeqWorkload)
  \/ GetByIdSelect(1, SeqWorkload)
  \/ CreateInsert(1, SeqWorkload)
  \/ UpdateGetTask(1, SeqWorkload)
  \/ DeleteTask(1, SeqWorkload)
  \/ RenameSelect(1, SeqWorkload)
  \/ DeleteTagSelect(1, SeqWorkload)
  \/ ListCount(1, SeqWorkload)
  \/ FocSteps({1})
  \/ AttachSteps({1})
  \/ ReadBackSteps({1})
  \/ UpdateSteps({1})
  \/ RenameSteps({1})
  \/ DeleteTagChecks({1})
  \/ ListSteps({1})
  \/ Return(1)

SpecSeq == Init /\ [][NextSeq]_vars

(***************************************************************************)
(* Spec: the requests of two processes that touch tags, interleaving       *)
(* statement by statement.                                                 *)
(***************************************************************************)
ConcWorkload ==
  [users |-> {1}, taskIds |-> {1}, tagIds |-> {1},
   creates |-> {[NoTask EXCEPT !.title = Some(<<"a">>), !.tags = Some(<<<<"a">>>>)],
                [NoTask EXCEPT !.title = Some(<<"a">>),
                               !.tags = Some(<<<<" ", "A">>, <<"a">>>>)]},
   updates |-> {[NoTask EXCEPT !.tags = Some(<< >>)],
                [NoTask EXCEPT !.tags = Some(<<<<" ", "A">>>>)]},
   names |-> {<<" ", "A">>, <<"b">>},
   attaches |-> {<<<<"a">>>>},
   lists |-> {},
   maxReq |-> MaxRequests]

Next ==
  \/ \E p \in Procs : FocStart(p, ConcWorkload)
  \/ \E p \in Procs : CreateInsert(p, ConcWorkload)
  \/ \E p \in Procs : UpdateGetTask(p, ConcWorkload)
  \/ \E p \in Procs : DeleteTask(p, ConcWorkload)
  \/ \E p \in Procs : RenameSelect(p, ConcWorkload)
  \/ \E p \in Procs : DeleteTagSelect(p, ConcWorkload)
  \/ FocSteps(Procs)
  \/ AttachSteps(Procs)
  \/ ReadBackSteps(Procs)
  \/ UpdateSteps(Procs)
  \/ RenameSteps(Procs)
  \/ DeleteTagChecks(Procs)
  \/ \E p \in Procs : DeleteTagDelete(p)
  \/ \E p \in Procs : Return(p)

Spec == Init /\ [][Next]_vars

(***************************************************************************)
(* SpecList: list requests of one process interleaving with the task       *)
(* requests of the other.                                                  *)
(***************************************************************************)
ListWorkload ==
  [users |-> {1}, taskIds |-> {1}, tagIds |-> {},
   creates |-> {[NoTask EXCEPT !.title = Some(<<"a">>)]},
   updates |-> {[NoTask EXCEPT !.completed = Some(TRUE)]},
   names |-> {}, attaches |-> {},
   lists |-> {[NoOptions EXCEPT !.limit = Some(1)],
              [NoOptions EXCEPT !.completed = Some("true")]},
   maxReq |-> MaxRequests]

NextList ==
  \/ \E p \in Procs : CreateInsert(p, ListWorkload)
  \/ \E p \in Procs : UpdateGetTask(p, ListWorkload)
  \/ \E p \in Procs : DeleteTask(p, ListWorkload)
  \/ \E p \in Procs : ListCount(p, ListWorkload)
  \/ \E p \in Procs : UpdateGetTags(p)
  \/ \E p \in Procs : UpdateWrite(p)
  \/ ReadBackSteps(Procs)
  \/ ListSteps(Procs)
  \/ \E p \in Procs : Return(p)

SpecList == Init /\ [][NextList]_vars

(***************************************************************************)
(* SpecTime: one request at a time while the clock advances; tasks with    *)
(* two titles are created, updated and listed sorted, page by page.        *)
(***************************************************************************)
\* a sortBy whose field is not among allowedFields
UnknownSort == <<"e", "_", "A", "S", "C">>

TimeSortParams ==
  SortParams \cup {F_title \o <<"_">> \o <<"d", "e", "s", "c">>,
                   F_updatedAt \o <<"_">> \o S_DESC,
                   UnknownSort}

TimeWorkload ==
  [users |-> {1}, taskIds |-> TaskIds, tagIds |-> {},
   creates |-> {[NoTask EXCEPT !.title = Some(<<"a">>)],
                [NoTask EXCEPT !.title = Some(<<"b">>), !.completed = Some(TRUE)]},
   updates |-> {[NoTask EXCEPT !.title = Some(<<"b">>)],
                [NoTask EXCEPT !.completed = Some(TRUE)]},
   names |-> {}, attaches |-> {},
   lists |-> {[NoOptions EXCEPT !.sortBy = srt, !.limit = l, !.page = pg,
                                !.completed = c] :
                srt \in OptOf(TimeSortParams), l \in {None, Some(1)},
                pg \in {None, Some(2), Some(3)}, c \in {None, Some("true")}},
   maxReq |-> NoLimit]

NextTime ==
  \/ CreateInsert(1, TimeWorkload)
  \/ UpdateGetTask(1, TimeWorkload)
  \/ ListCount(1, TimeWorkload)
  \/ UpdateGetTags(1)
  \/ UpdateWrite(1)
  \/ ReadBackSteps({1})
  \/ ListSteps({1})
  \/ Tick
  \/ Return(1)

SpecTime == Init /\ [][NextTime]_vars

(***************************************************************************)
(* SpecAuto: one request at a time; the tasks of two users get tags with   *)
(* the names "ab", "b" and "a", and the users ask for completions.         *)
(***************************************************************************)
AutoPrefixes == {<< >>, <<"a">>, <<"A">>, <<"a", "b">>, <<"b">>, <<"_">>, <<"%", "b">>}

AutoWorkload ==
  [users |-> Users, taskIds |-> TaskIds, tagIds |-> {},
   creates |-> {[NoTask EXCEPT !.title = Some(<<"a">>), !.tags = Some(l)] :
                  l \in {<<<<"a", "b">>, <<"b">>>>, <<<<"a">>, <<" ", "A">>>>,
                         <<<<"b">>>>, <<<<"A", "b">>, <<"a">>>>}},
   updates |-> {}, names |-> {}, attaches |-> {}, lists |-> {},
   prefixes |-> AutoPrefixes, limits |-> {None, Some(1)},
   maxReq |-> NoLimit]

NextAuto ==
  \/ CreateInsert(1, AutoWorkload)
  \/ autocompleteTags(1, AutoWorkload)
  \/ FocSteps({1})
  \/ AttachSteps({1})
  \/ ReadBackSteps({1})
  \/ Return(1)

SpecAuto == Init /\ [][NextAuto]_vars

(***************************************************************************)
(* SpecUpd: the update requests of two processes on the tasks of one user, *)
(* interleaving statement by statement.                                    *)
(***************************************************************************)
UpdWorkload ==
  [users |-> {1}, taskIds |-> {1}, tagIds |-> {},
   creates |-> {[NoTask EXCEPT !.title = Some(<<"a">>)]},
   updates |-> {[NoTask EXCEPT !.title = Some(<<"b">>)],
                [NoTask EXCEPT !.completed = Some(TRUE)],
                [NoTask EXCEPT !.tags = Some(<<<<"a">>>>)],
                [NoTask EXCEPT !.tags = Some(<<<<"b">>>>)]},
   names |-> {}, attaches |-> {}, lists |-> {},
   maxReq |-> MaxRequests]

NextUpd ==
  \/ \E p \in Procs : CreateInsert(p, UpdWorkload)
  \/ \E p \in Procs : UpdateGetTask(p, UpdWorkload)
  \/ UpdateSteps(Procs)
  \/ FocSteps(Procs)
  \/ AttachSteps(Procs)
  \/ ReadBackSteps(Procs)
  \/ \E p \in Procs : Return(p)

SpecUpd == Init /\ [][NextUpd]_vars

(***************************************************************************)
(* SpecPages: two processes create tasks and ask for the pages of the list *)
(* of one user, one task a page.                                           *)
(***************************************************************************)
PagesSortParams ==
  {F_completed \o <<"_">> \o <<"A", "S", "C">>,
   F_title \o <<"_">> \o <<"A", "S", "C">>}

PagesWorkload ==
  [users |-> {1}, taskIds |-> {}, tagIds |-> {},
   creates |-> {[NoTask EXCEPT !.title = Some(<<"a">>)],
                [NoTask EXCEPT !.title = Some(<<"b">>)]},
   updates |-> {}, names |-> {}, attaches |-> {},
   lists |-> {[NoOptions EXCEPT !.sortBy = srt, !.limit = Some(1), !.page = pg] :
                srt \in OptOf(PagesSortParams), pg \in {None, Some(2)}},
   maxReq |-> MaxRequests]

NextPages ==
  \/ \E p \in Procs : CreateInsert(p, PagesWorkload)
  \/ \E p \in Procs : ListCount(p, PagesWorkload)
  \/ ReadBackSteps(Procs)
  \/ ListSteps(Procs)
  \/ \E p \in Procs : Return(p)

SpecPages == Init /\ [][NextPages]_vars

(***************************************************************************)
(* Properties.                                                             *)
(***************************************************************************)
\* the canonical form of a name as the specification defines it: trimmed,
\* then lowercased
CanonicalForm(name) == toLowerCase(trim(name))

\* every findOrCreateTag call present in the state, as <<process, index>>
Calls == {c \in Procs \X (1..MaxTagList) : c[2] <= Len(req[c[1]].threads)}
CallOf(c) == req[c[1]].threads[c[2]]

\* C1: in every reachable state, under any interleaving of task create, task
\* update, findOrCreate and tag rename, no two tag rows with distinct ids have
\* names that are equal after trimming and lowercasing.
C1_TagNamesUnique ==
  \A g \in DOMAIN tags, h \in DOMAIN tags :
    g # h => CanonicalForm(tags[g]) # CanonicalForm(tags[h])

\* C1 witness: two tag rows exist while a findOrCreateTag call whose INSERT
\* lost against a concurrent writer of the same canonical name has completed
C1_Witness ==
  /\ Cardinality(DOMAIN tags) >= 2
  /\ \E c \in Calls : CallOf(c).raced /\ CallOf(c).pc = "done"

\* C4 as stated: concurrent findOrCreate calls for one canonical form, here the
\* calls one attach runs in parallel, never raise an error and return the same
\* tag id, whatever other operations interleave.
C4_Original ==
  \A c \in Calls, d \in Calls :
    /\ ~CallOf(c).err
    /\ (/\ c[1] = d[1]
        /\ CallOf(c).pc = "done" /\ CallOf(d).pc = "done"
        /\ CallOf(c).id # 0 /\ CallOf(d).id # 0
        /\ CanonicalForm(CallOf(c).name) = CanonicalForm(CallOf(d).name))
       => CallOf(c).id = CallOf(d).id

\* C4 restricted to the calls during which no tag row is renamed or deleted:
\* no such call raises an error, all of them return the same tag id for one
\* canonical name, and exactly one tag row has that canonical name.
C4_RaceTolerated ==
  \A c \in Calls :
    ~CallOf(c).disturbed =>
      /\ ~CallOf(c).err
      /\ (CallOf(c).pc = "done" /\ CallOf(c).id # 0) =>
           /\ {g \in DOMAIN tags : CanonicalForm(tags[g]) = CanonicalForm(CallOf(c).name)}
                = {CallOf(c).id}
           /\ \A d \in Calls :
                (/\ ~CallOf(d).disturbed /\ CallOf(d).pc = "done" /\ CallOf(d).id # 0
                 /\ CanonicalForm(CallOf(d).name) = CanonicalForm(CallOf(c).name))
                => CallOf(d).id = CallOf(c).id

\* C4, the race of the restricted statement: a call that lost the INSERT race has fallen back to the
\* winner's row and returned the id that a call of another request returned
C4_Witness ==
  \E c \in Calls, d \in Calls :
    /\ c[1] # d[1]
    /\ CallOf(c).raced /\ ~CallOf(c).disturbed /\ ~CallOf(c).err
    /\ CallOf(c).pc = "done" /\ CallOf(d).pc = "done" /\ ~CallOf(d).disturbed
    /\ CanonicalForm(CallOf(d).name) = CanonicalForm(CallOf(c).name)
    /\ CallOf(c).id # 0 /\ CallOf(c).id = CallOf(d).id

\* C8 as stated: for every list call, total is the number of tasks that match
\* the filters in the store state from which the page was read, also when
\* create, update or delete requests interleave with the call.
C8_Original ==
  \A p \in Procs :
    (req[p].op = "list" /\ req[p].pc \in {"list_tags", "done"})
      => req[p].loc.total = req[p].loc.totalAtPage

(***************************************************************************)
(* What the specification says of ownership and of the tag filters, stated *)
(* on the tables directly.                                                 *)
(***************************************************************************)
Quiescent == \A p \in Procs : req[p].pc = "idle"

OwnerIs(t, u) == t \in DOMAIN tasks /\ tasks[t].userId = u

\* the canonical names of the tags of task t
TaskTagNames(t) ==
  {CanonicalForm(tags[g]) : g \in {h \in DOMAIN tags : <<t, h>> \in task_tags}}

\* the canonical names a request asks for (empty names dropped)
RequestedNames(names) == {CanonicalForm(names[i]) : i \in 1..Len(names)} \ {<< >>}

\* no name is given twice, also not in two spellings
NoRepetition(names) ==
  \A i, j \in 1..Len(names) :
    (i # j /\ CanonicalForm(names[i]) # << >>)
      => CanonicalForm(names[i]) # CanonicalForm(names[j])

\* the list without the later occurrences of a canonical name
RECURSIVE DistinctNames(_)
DistinctNames(names) ==
  IF names = << >> THEN << >>
  ELSE LET init == SubSeq(names, 1, Len(names) - 1)
           last == names[Len(names)]
       IN IF \E i \in 1..Len(init) : CanonicalForm(init[i]) = CanonicalForm(last)
          THEN DistinctNames(init)
          ELSE Append(DistinctNames(init), last)

CompletedOk(t, c) ==
  c = None \/ (tasks[t].completed = 1 <=> Val(c) = "true")

ExpectedAll(u, names, c) ==
  {t \in DOMAIN tasks :
     OwnerIs(t, u) /\ CompletedOk(t, c) /\ RequestedNames(names) \subseteq TaskTagNames(t)}

ExpectedAny(u, names, c) ==
  {t \in DOMAIN tasks :
     OwnerIs(t, u) /\ CompletedOk(t, c) /\ RequestedNames(names) \cap TaskTagNames(t) # {}}

\* the options of a list call for `names`, match mode and completed filter
Opt(names, mode, c) ==
  [NoOptions EXCEPT !.tags = IF names = << >> THEN None ELSE Some(JoinNames(names)),
                    !.tagMatchMode = mode, !.completed = c]

CompletedParams == OptOf({"true", "false"})
QueryNameListsUpTo(n) == {l \in QueryNameLists : Len(l) <= n}

ItemIds(r) == {r.result.tasks[i].id : i \in 1..Len(r.result.tasks)}
RowIds(rows) == {x[1] : x \in rows}

\* C5: for a requested list of distinct tag names and match mode 'all' (also
\* when no mode is given), list returns exactly the tasks owned by the user
\* that satisfy the completed filter and whose canonical tag names include all
\* requested canonical names, each once, and total is their number.
C5_AllMode ==
  /\ Quiescent =>
       \A u \in Users, names \in QueryNameLists, mode \in {None, Some("all")},
          c \in CompletedParams :
         NoRepetition(names) =>
           LET rows == PageQueryRows(u, Opt(names, mode, c))
               want == ExpectedAll(u, names, c)
           IN /\ RowIds(rows) = want
              /\ Cardinality(rows) = Cardinality(want)
              /\ CountQuery(u, Opt(names, mode, c)) = Cardinality(want)
  /\ \A p \in Procs, names \in QueryNameLists :
       (/\ req[p].op = "list" /\ req[p].pc = "done" /\ NoRepetition(names)
        /\ req[p].args.tags = Some(JoinNames(names))
        /\ req[p].args.tagMatchMode \in {None, Some("all")})
       => /\ ItemIds(req[p]) \subseteq ExpectedAll(req[p].userId, names, req[p].args.completed)
          /\ req[p].result.total
               = Cardinality(ExpectedAll(req[p].userId, names, req[p].args.completed))

\* C5 witness: a list call for two distinct names in the default mode has
\* answered with a task, while another task of the user carries only one of
\* the two names
C5_Witness ==
  \E p \in Procs, names \in QueryNameLists :
    /\ req[p].op = "list" /\ req[p].pc = "done"
    /\ req[p].args.tags = Some(JoinNames(names))
    /\ req[p].args.tagMatchMode = None
    /\ NoRepetition(names) /\ Cardinality(RequestedNames(names)) = 2
    /\ Len(req[p].result.tasks) = 1 /\ req[p].result.total = 1
    /\ \E t \in DOMAIN tasks :
         /\ OwnerIs(t, req[p].userId)
         /\ Cardinality(TaskTagNames(t) \cap RequestedNames(names)) = 1

\* C6: for match mode 'any', list returns exactly the tasks owned by the user
\* that satisfy the completed filter and have at least one of the requested
\* canonical names; each such task is returned once and counted once.
C6_AnyMode ==
  /\ Quiescent =>
       \A u \in Users, names \in QueryNameLists, c \in CompletedParams :
         LET rows == PageQueryRows(u, Opt(names, Some("any"), c))
             want == ExpectedAny(u, names, c)
         IN /\ RowIds(rows) = want
            /\ Cardinality(rows) = Cardinality(want)
            /\ CountQuery(u, Opt(names, Some("any"), c)) = Cardinality(want)
  /\ \A p \in Procs, names \in QueryNameLists :
       (/\ req[p].op = "list" /\ req[p].pc = "done"
        /\ req[p].args.tags = Some(JoinNames(names))
        /\ req[p].args.tagMatchMode = Some("any"))
       => /\ ItemIds(req[p]) \subseteq ExpectedAny(req[p].userId, names, req[p].args.completed)
          /\ req[p].result.total
               = Cardinality(ExpectedAny(req[p].userId, names, req[p].args.completed))

\* C6 witness: a list call in mode 'any' has returned a task that carries two
\* of the requested names, and counted every matching task once
C6_Witness ==
  \E p \in Procs, names \in QueryNameLists :
    /\ req[p].op = "list" /\ req[p].pc = "done"
    /\ req[p].args.tags = Some(JoinNames(names))
    /\ req[p].args.tagMatchMode = Some("any")
    /\ Len(req[p].result.tasks) = 1
    /\ Cardinality(TaskTagNames(req[p].result.tasks[1].id) \cap RequestedNames(names)) = 2
    /\ req[p].result.total = 2

\* the length of page `page` when `total` rows are cut into pages of `limit`
PageLen(total, page, limit) ==
  LET rest == total - (page - 1) * limit
  IN IF rest <= 0 THEN 0 ELSE IF rest < limit THEN rest ELSE limit

\* the least number of pages of size ps that hold total rows
Ceiling(total, ps) ==
  CHOOSE n \in 0..total : n * ps >= total /\ (n = 0 \/ (n - 1) * ps < total)

\* the number of items on pages 1..n of the rows in the order ord
RECURSIVE SumPages(_, _, _)
SumPages(ord, limit, n) ==
  IF n = 0 THEN 0 ELSE Len(PageOf(ord, n, limit)) + SumPages(ord, limit, n - 1)

MatchModes == {None, Some("all"), Some("any")}

\* the name lists of count consistency: none, one name, and <<"a">> with a second
CountNameLists ==
  {<< >>} \cup {l \in QueryNameListsUpTo(2) : Len(l) = 2 => l[1] = <<"a">>}

\* C7: on an unchanged store, for every completed filter, tag names, match
\* mode ('all', 'any' or none given), sort and page size, the lengths of the
\* pages 1..totalPages add up to total, and totalPages = ceil(total/pageSize).
C7_CountConsistency ==
  /\ Quiescent =>
       \A u \in Users, names \in CountNameLists,
          mode \in MatchModes, c \in CompletedParams,
          sort \in OptOf(SortParams), ps \in OptOf(1..MaxLimit) :
         LET o == [Opt(names, mode, c) EXCEPT !.sortBy = sort, !.limit = ps]
             total == CountQuery(u, o)
             pages == CeilDiv(total, limitOf(o))
         IN /\ pages = Ceiling(total, limitOf(o))
            /\ \A ord \in RowOrders(PageQueryRows(u, o), OrderBy(o)) :
                 SumPages(ord, limitOf(o), pages) = total
  /\ \A p \in Procs :
       (/\ req[p].op = "list" /\ req[p].pc = "done"
        /\ req[p].args.tagMatchMode \in MatchModes)
       => LET res == req[p].result
          IN /\ res.totalPages = Ceiling(res.total, res.limit)
             /\ Len(res.tasks) = PageLen(res.total, res.page, res.limit)

\* C7 witness: a list call has answered page 2 of 2 with the one remaining
\* task of a total of 2
C7_Witness ==
  \E p \in Procs :
    /\ req[p].op = "list" /\ req[p].pc = "done"
    /\ req[p].result.page = 2 /\ req[p].result.limit = 1
    /\ req[p].result.total = 2 /\ req[p].result.totalPages = 2
    /\ Len(req[p].result.tasks) = 1

\* C9 as stated: in mode 'all', rows and total for a list of names with
\* repetitions equal those for the list of its distinct canonical names.
\* Line 126 keeps the repetitions and line 153 compares with their number.
C9_Original ==
  Quiescent =>
    \A u \in Users, names \in QueryNameLists, c \in CompletedParams :
      LET given == Opt(names, Some("all"), c)
          distinct == Opt(DistinctNames(names), Some("all"), c)
      IN /\ PageQueryRows(u, given) = PageQueryRows(u, distinct)
         /\ CountQuery(u, given) = CountQuery(u, distinct)

\* C10 as stated: with tag names, no match mode or a value other than 'all'
\* and 'any' gives the rows and the total of match mode 'all'. Lines 151 and
\* 192-204 compare the mode with 'all' and 'any' only.
C10_Original ==
  Quiescent =>
    \A u \in Users, names \in QueryNameLists, c \in CompletedParams,
       mode \in {None, Some("every")} :
      /\ PageQueryRows(u, Opt(names, mode, c)) = PageQueryRows(u, Opt(names, Some("all"), c))
      /\ CountQuery(u, Opt(names, mode, c)) = CountQuery(u, Opt(names, Some("all"), c))

\* C2: getById answers with a task only to its owner, and answers not-found
\* alike for a task of another user and for a task that does not exist; list
\* returns only tasks of the calling user, whatever the filters and whoever
\* else carries the same tags.
C2_OwnershipIsolation ==
  /\ \A p \in Procs :
       (req[p].op = "getById" /\ req[p].pc = "done")
       => /\ req[p].status = "ok" =>
               /\ OwnerIs(req[p].taskId, req[p].userId)
               /\ req[p].result.task[req[p].taskId].userId = req[p].userId
          /\ ~OwnerIs(req[p].taskId, req[p].userId) => req[p].status = "notfound"
          /\ req[p].status = "notfound" => req[p].result = << >>
  /\ Quiescent =>
       \A u \in Users, names \in QueryNameListsUpTo(2) \cup {<< >>},
          mode \in MatchModes \cup {Some("every")}, c \in CompletedParams :
         \A row \in PageQueryRows(u, Opt(names, mode, c)) : OwnerIs(row[1], u)
  /\ \A p \in Procs :
       (req[p].op = "list" /\ req[p].pc = "done")
       => \A i \in 1..Len(req[p].result.tasks) :
            /\ req[p].result.tasks[i].task.userId = req[p].userId
            /\ OwnerIs(req[p].result.tasks[i].id, req[p].userId)

\* C2 witness: a list call filtered by tags has returned a task of the caller
\* while a task of another user carries a tag of the same name
C2_Witness ==
  \E p \in Procs :
    /\ req[p].op = "list" /\ req[p].pc = "done"
    /\ Len(req[p].result.tasks) >= 1
    /\ \E t \in DOMAIN tasks :
         /\ tasks[t].userId # req[p].userId
         /\ TaskTagNames(t) \cap TaskTagNames(req[p].result.tasks[1].id) # {}
         /\ \E i \in 1..Len(tagNamesToFilter(req[p].args)) :
              tagNamesToFilter(req[p].args)[i] \in TaskTagNames(t)

\* C3: update, delete and attach for a user who does not own the task change
\* nothing in tasks, tags and task_tags, and end not-found (update, delete)
\* or without a result (attach), never in an error.
C3_Step ==
  \A p \in Procs :
    (/\ req'[p].op \in {"update", "delete", "attach"}
     /\ ~OwnerIs(req'[p].taskId, req'[p].userId))
    => /\ store' = store
       /\ req'[p].pc # "failed"
       /\ req'[p].pc = "done" =>
            /\ req'[p].result = << >>
            /\ req'[p].status = IF req'[p].op = "attach" THEN "ok" ELSE "notfound"

C3_NonOwnerNoEffect == [][C3_Step]_vars

\* C3 witness: attach with a name was called on a task of another user and
\* has returned
C3_Witness ==
  \E p \in Procs :
    /\ req[p].op = "attach" /\ req[p].pc = "done"
    /\ req[p].taskId \in DOMAIN tasks
    /\ tasks[req[p].taskId].userId # req[p].userId
    /\ Len(req[p].names) > 0

\* the ids of the items of a list response, in their order
ItemSeq(r) == [i \in 1..Len(r.result.tasks) |-> r.result.tasks[i].id]

\* task x comes strictly before task y when sorted by field, descending or not
SortsBefore(x, y, field, desc) ==
  LET less(a, b) ==
        IF field = F_title THEN TextLess(a.title, b.title)
        ELSE IF field = F_createdAt THEN a.createdAt < b.createdAt
        ELSE IF field = F_updatedAt THEN a.updatedAt < b.updatedAt
        ELSE a.completed < b.completed
  IN IF desc THEN less(tasks[y], tasks[x]) ELSE less(tasks[x], tasks[y])

\* the lists of the tasks in `set` sorted by field in the given direction
SortedLists(set, field, desc) ==
  {s \in [1..Cardinality(set) -> set] :
     /\ \A i, j \in 1..Cardinality(set) : i # j => s[i] # s[j]
     /\ \A i, j \in 1..Cardinality(set) :
          i < j => ~SortsBefore(s[j], s[i], field, desc)}

\* the elements of s at the positions (p-1)*n+1 .. p*n
Positions(s, p, n) ==
  LET first == (p - 1) * n + 1
      last == IF p * n < Len(s) THEN p * n ELSE Len(s)
  IN [i \in 1..(IF last >= first THEN last - first + 1 ELSE 0) |-> s[first + i - 1]]

\* the response r of a list call without tag filter is the page of the
\* caller's filtered tasks sorted by field in the given direction
IsPageOfSorted(r, field, desc) ==
  LET want == {t \in DOMAIN tasks :
                 OwnerIs(t, r.userId) /\ CompletedOk(t, r.args.completed)}
  IN /\ r.status = "ok"
     /\ \E s \in SortedLists(want, field, desc) :
          ItemSeq(r) = Positions(s, r.result.page, r.result.limit)
     /\ r.result.total = Cardinality(want)
     /\ r.result.totalPages = Ceiling(Cardinality(want), r.result.limit)

SortFields == {F_createdAt, F_updatedAt, F_title, F_completed}
Directions == {<<"A", "S", "C">>, <<"D", "E", "S", "C">>, <<"d", "e", "s", "c">>}
IsDesc(dir) == dir \in {<<"D", "E", "S", "C">>, <<"d", "e", "s", "c">>}

\* C11 as stated: a list call whose sort field is not recognised does not fail
\* and returns its items in the default order, createdAt descending. Lines
\* 210-216 add no ORDER BY at all in that case.
C11_Original ==
  \A p \in Procs :
    (/\ req[p].op = "list" /\ req[p].pc \in {"done", "failed"}
     /\ req[p].args.tags = None
     /\ req[p].args.sortBy = Some(UnknownSort))
    => /\ req[p].pc = "done"
       /\ IsPageOfSorted(req[p], F_createdAt, TRUE)

\* C12: for a recognised sort field and direction (createdAt descending when
\* none is given) the items of page p with page size n are the elements at
\* positions (p-1)*n+1 .. p*n of the filtered tasks sorted by that field in
\* that direction; a page beyond the last has no items, the same total and
\* totalPages, and is no error.
C12_SortedPages ==
  \A p \in Procs :
    (req[p].op = "list" /\ req[p].pc \in {"done", "failed"} /\ req[p].args.tags = None)
    => /\ req[p].args.sortBy = None => IsPageOfSorted(req[p], F_createdAt, TRUE)
       /\ \A field \in SortFields, dir \in Directions :
            req[p].args.sortBy = Some(field \o <<"_">> \o dir)
              => IsPageOfSorted(req[p], field, IsDesc(dir))
       /\ (/\ req[p].args.sortBy # Some(UnknownSort)
           /\ req[p].pc = "done"
           /\ req[p].result.page > req[p].result.totalPages)
          => Len(req[p].result.tasks) = 0

\* C12 witness: page 2 of two tasks sorted by title descending, one to a page,
\* holds the task with the smaller title
C12_Witness ==
  \E p \in Procs :
    /\ req[p].op = "list" /\ req[p].pc = "done"
    /\ req[p].args.sortBy = Some(F_title \o <<"_">> \o <<"d", "e", "s", "c">>)
    /\ req[p].result.limit = 1 /\ req[p].result.total = 2
    /\ req[p].result.page = 2
    /\ Len(req[p].result.tasks) = 1
    /\ \E t \in DOMAIN tasks :
         TextLess(tasks[req[p].result.tasks[1].id].title, tasks[t].title)

\* the tag ids associated with task t
TaskTagIds(t) == {g \in DOMAIN tags : <<t, g>> \in task_tags}

\* C13: names with the same canonical form resolve to the same tag id, in
\* successive findOrCreate calls and together in one attach list: every call
\* returns the id of the one row with that canonical name; a task created or
\* updated with several such names ends with exactly one association per
\* canonical name, named by the canonical form.
C13_SameCanonicalSameTag ==
  \A p \in Procs :
    /\ req[p].op \in {"findOrCreate", "attach", "create", "update"}
         => req[p].pc # "failed"
    /\ \A i \in 1..Len(req[p].threads) :
         LET c == req[p].threads[i] IN
         (c.pc = "done" /\ CanonicalForm(c.name) # << >>)
         => /\ c.id # 0
            /\ {g \in DOMAIN tags : CanonicalForm(tags[g]) = CanonicalForm(c.name)} = {c.id}
            /\ \A j \in 1..Len(req[p].threads) :
                 (/\ req[p].threads[j].pc = "done"
                  /\ CanonicalForm(req[p].threads[j].name) = CanonicalForm(c.name))
                 => req[p].threads[j].id = c.id
    /\ (/\ req[p].op \in {"create", "update"} /\ req[p].pc = "done"
        /\ req[p].status = "ok" /\ req[p].args.tags # None)
       => LET names == Val(req[p].args.tags)
              got == req[p].result.tags
          IN /\ {x.name : x \in got} = RequestedNames(names)
             /\ Cardinality(got) = Cardinality(RequestedNames(names))
             /\ {x.id : x \in got} = TaskTagIds(req[p].taskId)
             /\ Cardinality(TaskTagIds(req[p].taskId)) = Cardinality(RequestedNames(names))

\* C13 witness: a task was created with two spellings of one name, the second
\* call fell back to the row the first had inserted, and the task has one tag
C13_Witness ==
  \E p \in Procs :
    /\ req[p].op = "create" /\ req[p].pc = "done" /\ req[p].status = "ok"
    /\ Len(req[p].threads) = 2
    /\ req[p].threads[1].name # req[p].threads[2].name
    /\ CanonicalForm(req[p].threads[1].name) = CanonicalForm(req[p].threads[2].name)
    /\ \E i \in 1..2 : req[p].threads[i].raced
    /\ Cardinality(req[p].result.tags) = 1

\* C14: every tag name written by findOrCreate or by rename is stored and
\* returned in canonical form: each tag row's name equals its own trimmed,
\* lowercased form, and so does every name a call returns.
C14_CanonicalStorage ==
  /\ \A g \in DOMAIN tags : tags[g] = CanonicalForm(tags[g])
  /\ \A c \in Calls :
       (CallOf(c).pc = "done" /\ CallOf(c).id # 0)
       => CallOf(c).rname = CanonicalForm(CallOf(c).name)
  /\ \A p \in Procs :
       (req[p].op = "rename" /\ req[p].pc = "done" /\ req[p].status = "ok")
       => req[p].result.name = CanonicalForm(req[p].args.newName)

\* C14 witness: a rename to a name given with a space and in upper case has
\* succeeded, and a findOrCreate call for such a spelling has returned
C14_Witness ==
  /\ \E p \in Procs :
       /\ req[p].op = "rename" /\ req[p].pc = "done" /\ req[p].status = "ok"
       /\ req[p].args.newName # CanonicalForm(req[p].args.newName)
       /\ req[p].args.tagId \in DOMAIN tags
       /\ tags[req[p].args.tagId] = CanonicalForm(req[p].args.newName)
  /\ \E c \in Calls :
       /\ CallOf(c).pc = "done" /\ CallOf(c).id # 0
       /\ CallOf(c).name # CanonicalForm(CallOf(c).name)

\* C15 as stated: findOrCreate called with a name that is empty after trimming
\* fails with an error. Line 26 returns null instead.
C15_Original ==
  \A p \in Procs :
    (/\ req[p].op = "findOrCreate" /\ req[p].pc \in {"done", "failed"}
     /\ CanonicalForm(req[p].names[1]) = << >>)
    => req[p].pc = "failed"

\* C15 amended: findOrCreate called with a name that is empty after trimming
\* returns no tag (null) without raising an error and creates no tag row; the
\* calls an attach list makes for such names end the same way.
C15_Step ==
  \A p \in Procs :
    /\ (req'[p].op = "findOrCreate" /\ CanonicalForm(req'[p].names[1]) = << >>)
       => /\ store' = store
          /\ req'[p].pc = "done" /\ req'[p].status = "notfound"
          /\ req'[p].result.id = 0
    /\ \A i \in 1..Len(req'[p].threads) :
         CanonicalForm(req'[p].threads[i].name) = << >>
         => /\ req'[p].threads[i].pc = "done"
            /\ req'[p].threads[i].id = 0 /\ ~req'[p].threads[i].err
    /\ \A g \in DOMAIN tags' : tags'[g] # << >>

C15_EmptyNameIsNull == [][C15_Step]_vars

\* C15 witness: findOrCreate was called with a blank name while tag rows
\* exist, and has returned
C15_Witness ==
  \E p \in Procs :
    /\ req[p].op = "findOrCreate" /\ req[p].pc = "done"
    /\ req[p].names[1] = <<" ">>
    /\ req[p].status = "notfound"
    /\ DOMAIN tags # {}

\* C16: after a successful update whose partial fields contain a tags key, the
\* task's tag set is exactly the set of canonical forms of the given names
\* (none for an empty array), whatever tags the task had before.
C16_ReplaceTags ==
  \A p \in Procs :
    (/\ req[p].op = "update" /\ req[p].pc = "done" /\ req[p].status = "ok"
     /\ req[p].args.tags # None)
    => LET want == RequestedNames(Val(req[p].args.tags))
       IN /\ TaskTagNames(req[p].taskId) = want
          /\ Cardinality(TaskTagIds(req[p].taskId)) = Cardinality(want)
          /\ {x.name : x \in req[p].result.tags} = want
          /\ {x.id : x \in req[p].result.tags} = TaskTagIds(req[p].taskId)

\* C16 witness: a task that had tags was updated with a non-empty list of
\* names and now has other tags than before
C16_Witness ==
  \E p \in Procs :
    /\ req[p].op = "update" /\ req[p].pc = "done" /\ req[p].status = "ok"
    /\ req[p].args.tags # None /\ Len(Val(req[p].args.tags)) > 0
    /\ req[p].old.tags # {}
    /\ ~(req[p].old.tags \subseteq TaskTagIds(req[p].taskId))

\* C17: an update changes only the fields present in the partial update:
\* title, description and completed keep their value when absent, the tag
\* associations (and the tags) are untouched when the tags key is absent, the
\* task's id, owner and createdAt never change, and no other task changes.
C17_Step ==
  \A p \in Procs :
    (req[p].op = "update" /\ req[p].taskId \in DOMAIN tasks)
    => LET id == req[p].taskId
           d == req[p].args
       IN /\ DOMAIN tasks' = DOMAIN tasks
          /\ \A t \in DOMAIN tasks : t # id => tasks'[t] = tasks[t]
          /\ tasks'[id].userId = tasks[id].userId
          /\ tasks'[id].createdAt = tasks[id].createdAt
          /\ d.title = None => tasks'[id].title = tasks[id].title
          /\ d.description = None => tasks'[id].description = tasks[id].description
          /\ d.completed = None => tasks'[id].completed = tasks[id].completed
          /\ d.tags = None => (task_tags' = task_tags /\ tags' = tags)
          /\ {tt \in task_tags' : tt[1] # id} = {tt \in task_tags : tt[1] # id}

C17_OnlyGivenFields == [][C17_Step]_vars

\* C17 witness: a completed task with tags was updated with completed alone:
\* completed has changed, its tags are those it had
C17_Witness ==
  \E p \in Procs :
    /\ req[p].op = "update" /\ req[p].pc = "done" /\ req[p].status = "ok"
    /\ req[p].args.tags = None /\ req[p].args.completed # None
    /\ req[p].old.tags # {} /\ TaskTagIds(req[p].taskId) = req[p].old.tags
    /\ tasks[req[p].taskId].completed # req[p].old.row.completed

\* C18 as stated: every successful update leaves updatedAt strictly greater
\* than it was before the update, also when no time passes in between. Line 295
\* takes the wall clock, which may not have advanced.
C18_Original ==
  \A p \in Procs :
    (req[p].op = "update" /\ req[p].pc = "done" /\ req[p].status = "ok")
    => tasks[req[p].taskId].updatedAt > req[p].old.row.updatedAt

\* C19: deleting a task removes every association of that task and nothing
\* else: no association references the task id afterwards, no tag row is
\* removed, and the other tasks and their associations are unchanged.
C19_Step ==
  \A p \in Procs :
    (/\ req[p].pc = "idle" /\ req'[p].op = "delete" /\ req'[p].status = "ok")
    => LET id == req'[p].taskId
       IN /\ task_tags' = {tt \in task_tags : tt[1] # id}
          /\ \A tt \in task_tags' : tt[1] \in DOMAIN tasks'
          /\ tags' = tags
          /\ DOMAIN tasks' = DOMAIN tasks \ {id}
          /\ \A t \in DOMAIN tasks' : tasks'[t] = tasks[t]

C19_DeleteCascade == [][C19_Step]_vars

\* C19 witness: a task with tags was deleted; one of its tags is now on no
\* task and still in the tag table, and another task still has its tags
C19_Witness ==
  \E p \in Procs :
    /\ req[p].op = "delete" /\ req[p].pc = "done" /\ req[p].status = "ok"
    /\ \E g \in req[p].old.tags :
         g \in DOMAIN tags /\ ~(\E tt \in task_tags : tt[2] = g)
    /\ \E t \in DOMAIN tasks : TaskTagIds(t) # {}

\* user u owns a task that carries tag g
UserHasTag(g, u) ==
  \E t \in DOMAIN tasks : tasks[t].userId = u /\ <<t, g>> \in task_tags

\* C20: rename and delete of an existing tag requested by a user who owns no
\* task associated with the tag fail with the permission error (403) and
\* leave tags and associations unchanged; a rename to a name that is empty
\* after trimming is refused before, as invalid (400).
C20_Step ==
  \A p \in Procs :
    (/\ req'[p].op \in {"rename", "deleteTag"}
     /\ req'[p].args.tagId \in DOMAIN tags
     /\ ~UserHasTag(req'[p].args.tagId, req'[p].userId))
    => /\ store' = store
       /\ req'[p].pc # "failed"
       /\ req'[p].pc = "done" =>
            req'[p].status =
              IF req'[p].op = "rename" /\ CanonicalForm(req'[p].args.newName) = << >>
              THEN "error:400" ELSE "error:403"

C20_PermissionDenied == [][C20_Step]_vars

\* C20 witness: a rename to a valid name, of a tag that only a task of another
\* user carries, was refused with 403
C20_Witness ==
  \E p \in Procs :
    /\ req[p].op = "rename" /\ req[p].pc = "done" /\ req[p].status = "error:403"
    /\ req[p].args.tagId \in DOMAIN tags
    /\ CanonicalForm(req[p].args.newName) # << >>
    /\ \E t \in DOMAIN tasks :
         tasks[t].userId # req[p].userId /\ <<t, req[p].args.tagId>> \in task_tags

\* C21: a rename by a permitted user to a name whose canonical form is the
\* name of a tag with another id changes nothing and ends with the conflict
\* error (409); a rename to a name whose canonical form is the tag's own
\* current name succeeds and leaves the tag under that name.
C21_Step ==
  \A p \in Procs :
    LET g == req'[p].args.tagId
        cn == CanonicalForm(req'[p].args.newName)
    IN (/\ req'[p].op = "rename"
        /\ g \in DOMAIN tags /\ UserHasTag(g, req'[p].userId)
        /\ cn # << >>)
       => /\ (\E h \in DOMAIN tags \ {g} : CanonicalForm(tags[h]) = cn)
             => /\ store' = store
                /\ req'[p].pc # "failed"
                /\ req'[p].pc = "done" => req'[p].status = "error:409"
          /\ CanonicalForm(tags[g]) = cn
             => /\ DOMAIN tags' = DOMAIN tags
                /\ \A h \in DOMAIN tags \ {g} : tags'[h] = tags[h]
                /\ tags'[g] \in {tags[g], cn}
                /\ <<tasks', task_tags'>> = <<tasks, task_tags>>
                /\ req'[p].pc # "failed"
                /\ req'[p].pc = "done"
                   => /\ req'[p].status = "ok"
                      /\ req'[p].result = [id |-> g, name |-> cn]
                      /\ tags'[g] = cn

C21_RenameConflict == [][C21_Step]_vars

\* C21 witness: a rename to the name of another tag was refused with 409
C21_Witness ==
  \E p \in Procs :
    /\ req[p].op = "rename" /\ req[p].pc = "done" /\ req[p].status = "error:409"
    /\ req[p].args.tagId \in DOMAIN tags
    /\ UserHasTag(req[p].args.tagId, req[p].userId)
    /\ \E h \in DOMAIN tags \ {req[p].args.tagId} :
         tags[h] = CanonicalForm(req[p].args.newName)

\* the tags a read of task t shows on the store as it is: id and current name
ShownTags(t) == {[id |-> g, name |-> tags[g]] : g \in TaskTagIds(t)}

\* C22, the reads: a finished getById and every item of a finished list show
\* the tags of the task under the names the tag table holds now, and a
\* finished findOrCreate returns a tag whose name now is the canonical form of
\* the name asked for (so not a tag renamed away from that name)
C22_Reads ==
  \A p \in Procs :
    /\ (req[p].op = "getById" /\ req[p].pc = "done" /\ req[p].status = "ok")
       => req[p].result.tags = ShownTags(req[p].taskId)
    /\ (req[p].op = "list" /\ req[p].pc = "done" /\ req[p].status = "ok")
       => \A i \in 1..Len(req[p].result.tasks) :
            req[p].result.tasks[i].tags = ShownTags(req[p].result.tasks[i].id)
    /\ (req[p].op = "findOrCreate" /\ req[p].pc = "done" /\ req[p].status = "ok")
       => /\ req[p].result.id \in DOMAIN tags
          /\ tags[req[p].result.id] = CanonicalForm(req[p].names[1])
          /\ req[p].result.name = tags[req[p].result.id]

\* C22: a successful rename of tag X leaves X, on every task that references
\* it, of any user, under the new canonical name and no longer under the old
\* one; the reads that follow (getById, list, findOrCreate) go by the names
\* the tag table holds.
C22_Step ==
  /\ \A p \in Procs :
       (/\ req[p].pc = "ren_write" /\ req'[p].pc = "done" /\ req'[p].status = "ok"
        /\ req[p].args.tagId \in DOMAIN tags)
       => LET X == req[p].args.tagId
              cn == CanonicalForm(req[p].args.newName)
          IN /\ tags'[X] = cn
             /\ <<tasks', task_tags'>> = <<tasks, task_tags>>
             /\ DOMAIN tags' = DOMAIN tags
             /\ \A h \in DOMAIN tags' : tags'[h] = tags[X] /\ tags[X] # cn => h # X
             /\ req'[p].result = [id |-> X, name |-> cn]
  /\ C22_Reads'

C22_RenamePropagation == [][C22_Step]_vars

\* C22 witness: a tag on tasks of two users was renamed to another name
C22_Witness ==
  \E p \in Procs :
    /\ req[p].op = "rename" /\ req[p].pc = "done" /\ req[p].status = "ok"
    /\ req[p].args.tagId \in DOMAIN tags
    /\ req[p].old.name # tags[req[p].args.tagId]
    /\ \E t1 \in DOMAIN tasks, t2 \in DOMAIN tasks :
         /\ tasks[t1].userId # tasks[t2].userId
         /\ req[p].args.tagId \in TaskTagIds(t1) \cap TaskTagIds(t2)

\* some task, of any user, carries tag g
Referenced(g) == \E tt \in task_tags : tt[2] = g

\* C23: a delete of a tag requested by a permitted user while a task of any
\* user references the tag changes neither the tag row nor any association,
\* and its usage check ends it with the in-use error (400).
C23_Step ==
  \A p \in Procs :
    (/\ req'[p].op = "deleteTag"
     /\ req'[p].args.tagId \in DOMAIN tags
     /\ UserHasTag(req'[p].args.tagId, req'[p].userId)
     /\ Referenced(req'[p].args.tagId))
    => /\ store' = store
       /\ req'[p].pc # "failed"
       /\ req'[p].pc = "done" => req'[p].status = "error:400"
       /\ (req[p].pc = "dt_inuse" /\ req'[p] # req[p]) => req'[p].pc = "done"

C23_InUse == [][C23_Step]_vars

\* C23 witness: a delete of a tag that tasks of the requester and of another
\* user carry was refused with 400
C23_Witness ==
  \E p \in Procs :
    /\ req[p].op = "deleteTag" /\ req[p].pc = "done" /\ req[p].status = "error:400"
    /\ req[p].args.tagId \in DOMAIN tags
    /\ UserHasTag(req[p].args.tagId, req[p].userId)
    /\ \E t \in DOMAIN tasks :
         tasks[t].userId # req[p].userId /\ req[p].args.tagId \in TaskTagIds(t)

\* the case of C24: the tag of the request exists, a task of another user
\* carries it, the requester owns a task and none of the requester's tasks
\* carries the tag
C24_Case(r) ==
  /\ r.op = "deleteTag"
  /\ r.args.tagId \in DOMAIN tags
  /\ ~UserHasTag(r.args.tagId, r.userId)
  /\ \E t \in DOMAIN tasks : tasks[t].userId = r.userId
  /\ \E t \in DOMAIN tasks :
       tasks[t].userId # r.userId /\ r.args.tagId \in TaskTagIds(t)

\* C24 as stated: a delete of a tag still referenced by a task of another
\* user, requested by a user whose own tasks do not reference it, fails with
\* the in-use error (400)
C24_Original ==
  \A p \in Procs :
    (req[p].pc = "done" /\ C24_Case(req[p])) => req[p].status = "error:400"

\* C24, amended: such a delete fails with the permission error (403), the
\* permission check coming before the usage check, and changes nothing
C24_Step ==
  \A p \in Procs :
    C24_Case(req'[p])
    => /\ store' = store
       /\ req'[p].pc # "failed"
       /\ req'[p].pc = "done" => req'[p].status = "error:403"
       /\ (req[p].pc = "dt_perm" /\ req'[p] # req[p]) => req'[p].pc = "done"

C24_PermissionFirst == [][C24_Step]_vars

\* C24 witness: the requester owns a task without the tag, another user's
\* task carries the tag, and the delete was refused with 403
C24_Witness ==
  \E p \in Procs :
    /\ req[p].pc = "done" /\ C24_Case(req[p])
    /\ req[p].status = "error:403"

\* s starts with pre
StartsWith(s, pre) == Len(pre) <= Len(s) /\ SubSeq(s, 1, Len(pre)) = pre

\* the tags on at least one task of user u whose canonical name starts with
\* the lowercased prefix q
PrefixTags(u, q) ==
  {g \in DOMAIN tags :
     UserHasTag(g, u) /\ StartsWith(CanonicalForm(tags[g]), toLowerCase(q))}

\* sq lists the tag ids G once each, by ascending canonical name
AscendingNames(sq, G) ==
  /\ Len(sq) = Cardinality(G)
  /\ {sq[i] : i \in 1..Len(sq)} = G
  /\ \A i \in 1..Len(sq), j \in 1..Len(sq) :
       i < j => TextLess(CanonicalForm(tags[sq[i]]), CanonicalForm(tags[sq[j]]))

\* C25 as stated: autocomplete with a non-empty prefix returns, by ascending
\* canonical name, the first limit (10 when none is given) of the tags on a
\* task of the user whose canonical name starts with the lowercased prefix,
\* whatever characters the prefix contains. The LIKE of line 376 reads % and
\* _ in the prefix as wildcards.
C25_Original ==
  \A p \in Procs :
    (/\ req[p].op = "autocomplete" /\ req[p].pc = "done"
     /\ req[p].args.q # << >>)
    => LET res == req[p].result
           G == PrefixTags(req[p].userId, req[p].args.q)
           limit == IF req[p].args.limit = None THEN 10 ELSE Val(req[p].args.limit)
       IN \E sq \in [1..Cardinality(G) -> G] :
            /\ AscendingNames(sq, G)
            /\ Len(res) = IF Cardinality(G) < limit THEN Cardinality(G) ELSE limit
            /\ \A i \in 1..Len(res) :
                 res[i] = [id |-> sq[i], name |-> CanonicalForm(tags[sq[i]])]

\* C26: when requests do not interleave, no deleteTag succeeds and the tag
\* table never loses a row. Stated on all interleavings: a deleteTag whose
\* usage check finds the tasks and associations as its permission check saw
\* them (no other request wrote in between) ends at that check with the
\* in-use error; every deleteTag ends with 404, 403 or 400 unless it passed
\* the usage check; and a tag row is removed only by a deleteTag that passed
\* it.
C26_Step ==
  /\ \A p \in Procs :
       /\ (req[p].pc = "dt_inuse" /\ req'[p] # req[p]
           /\ req[p].old = [tasks |-> tasks, task_tags |-> task_tags])
          => /\ req'[p].pc = "done" /\ req'[p].status = "error:400"
             /\ store' = store
       /\ (/\ req'[p].op = "deleteTag" /\ req'[p].pc = "done"
           /\ req[p].pc \notin {"dt_delete", "done"})
          => req'[p].status \in {"error:404", "error:403", "error:400"}
  /\ (\E g \in DOMAIN tags : g \notin DOMAIN tags')
     => \E p \in Procs : req[p].pc = "dt_delete" /\ req'[p].pc = "done"

C26_NoSequentialDelete == [][C26_Step]_vars

\* C26 witness: a deleteTag of a permitted user, with no write between its
\* two checks, was refused with 400 while only tasks of the requester carry
\* the tag
C26_Witness ==
  \E p \in Procs :
    /\ req[p].op = "deleteTag" /\ req[p].pc = "done" /\ req[p].status = "error:400"
    /\ req[p].old = [tasks |-> tasks, task_tags |-> task_tags]
    /\ req[p].args.tagId \in DOMAIN tags
    /\ \A t \in DOMAIN tasks :
         req[p].args.tagId \in TaskTagIds(t) => tasks[t].userId = req[p].userId

\* C27 as stated: under any interleaving of deleteTag with task requests,
\* the step that removes a tag row removes no association: no task
\* references the tag at the moment of removal. The usage check of line 346
\* and the DELETE of line 353 are two statements, and the DELETE cascades.
C27_Step ==
  \A g \in DOMAIN tags :
    g \notin DOMAIN tags' => (~Referenced(g) /\ task_tags' = task_tags)

C27_Original == [][C27_Step]_vars

\* both processes have completed a successful update of the same task
BothUpdated ==
  /\ \A p \in Procs :
       req[p].op = "update" /\ req[p].pc = "done" /\ req[p].status = "ok"
  /\ req[1].taskId = req[2].taskId

\* C28 as stated: when two updates that both carry a tags key have run
\* concurrently on one task and both have completed, the tag set of the task
\* is the canonical set one of the two asked for, never a mixture. Each
\* update clears and attaches with separate statements.
C28_Original ==
  (/\ BothUpdated
   /\ req[1].args.tags # None /\ req[2].args.tags # None)
  => \E p \in Procs :
       TaskTagNames(req[p].taskId) = RequestedNames(Val(req[p].args.tags))

\* C29 as stated: when two updates have run concurrently on one task, one
\* giving only the title and the other only completed, and both have
\* completed, both changes are present. Line 298 writes title, description
\* and completed in every update, the absent ones as read at line 285.
C29_Original ==
  \A p \in Procs, q \in Procs :
    (/\ BothUpdated
     /\ req[p].args = [NoTask EXCEPT !.title = req[p].args.title]
     /\ req[p].args.title # None
     /\ req[q].args = [NoTask EXCEPT !.completed = req[q].args.completed]
     /\ req[q].args.completed # None)
    => /\ tasks[req[p].taskId].title = Val(req[p].args.title)
       /\ (tasks[req[q].taskId].completed = 1) = Val(req[q].args.completed)

\* C30 as stated, for two pages of one task: with the store unchanged (both
\* calls counted the tasks that match now) and the same filters, sort and
\* page size, pages 1 and 2 together return every matching task exactly
\* once, also when the tasks have the same value of the sort field. The
\* ORDER BY of lines 209-219 names the sort field alone.
C30_Original ==
  \A p \in Procs, q \in Procs :
    LET M == ExpectedAll(req[p].userId, << >>, req[p].args.completed) IN
    (/\ req[p].op = "list" /\ req[p].pc = "done" /\ req[p].status = "ok"
     /\ req[q].op = "list" /\ req[q].pc = "done" /\ req[q].status = "ok"
     /\ req[p].userId = req[q].userId
     /\ req[p].args.tags = None
     /\ req[q].args = [req[p].args EXCEPT !.page = Some(2)]
     /\ pageOf(req[p].args) = 1 /\ limitOf(req[p].args) = 1
     /\ Cardinality(M) = 2
     /\ req[p].result.total = 2 /\ req[q].result.total = 2
     /\ req[p].result.totalPages = 2 /\ req[q].result.totalPages = 2)
    => /\ ItemIds(req[p]) \cup ItemIds(req[q]) = M
       /\ ItemIds(req[p]) \cap ItemIds(req[q]) = {}

====
